---- MODULE Spec2Model ----
(***************************************************************************)
(* Model of the content-processing pipeline and the tutor engine of        *)
(* arma-code (backend/app): one material, its committed rows, the session  *)
(* transaction of the processing service, the Celery task wrapper and the  *)
(* HTTP triggers.                                                          *)
(*                                                                         *)
(* Texts are sequences of one-character strings.  Artifacts are tagged     *)
(* with the number of the run that generated them, so that "from this      *)
(* run" and "from an earlier run" are different values.                    *)
(***************************************************************************)
EXTENDS Integers, Sequences, FiniteSets, TLC

VARIABLES
    status,     \* materials.processing_status (committed)
    progress,   \* materials.processing_progress (committed)
    error,      \* materials.processing_error (committed), "none" = NULL
    fullText,   \* materials.full_text (committed), <<>> = NULL or ""
    db,         \* committed artifact rows of the material (what readers see)
    tx,         \* pending writes of the service session's open transaction
    pc,         \* position of the trigger / task / service code
    run,        \* number of pipeline runs dispatched so far (id of the run)
    text,       \* full_text argument of the current process_material call
    genRes,     \* outcome of each of the four gathered generation calls
    failOrder,  \* generation calls that failed, in the order they failed
    cards,      \* number of items returned by generate_flashcards
    questions,  \* number of items returned by generate_quiz
    exc,        \* exception propagating out of the current run, "none" if none
    failedAt,   \* pc at which exc was raised
    pre,        \* history: db as it was when the current run was dispatched
    trigger,    \* history: the request that asked for the current run, and the
                \* status it found
    tpc,        \* position of TutorService.send_message
    asks,       \* number of send_message calls made so far
    q,          \* the question of the current call, as its embedding vector
    cache,      \* Redis: semantic-cache entries of the material, by key
    scan,       \* what the last cache lookup saw: client, key order, reads
    cached,     \* result of _check_semantic_cache ("miss" = None)
    aborted,    \* the tutor session's transaction is in the failed state
    retrieval,  \* what _find_relevant_context did and returned
    hist,       \* conversation history loaded for the generation call
    answer,     \* the answer of the current call
    messages,   \* tutor_messages rows of the material, oldest first
    msgs0,      \* history: messages when the current call started
    calls,      \* external calls made by the current send_message call
    returned,   \* value returned to the caller ("nothing" while running)
    raised,     \* exception that left send_message ("none" if none)
    regen,      \* the current / last regenerate_* call on the material
    chunked,    \* a call of _split_into_chunks: its arguments and its result
    gw,         \* the generation gateway: its current call and its result cache
    hcall,      \* a history load and the chat call it feeds: limit, rows, messages
    writers     \* overlapping regenerate_flashcards requests, each on its session

pipeVars == <<status, progress, error, fullText, db, tx, pc, run, text,
              genRes, failOrder, cards, questions, exc, failedAt, pre, trigger>>

tutorVars == <<tpc, asks, q, cache, scan, cached, aborted, retrieval, hist,
               answer, messages, msgs0, calls, returned, raised>>

vars == <<pipeVars, tutorVars, regen, chunked, gw, hcall, writers>>

-----------------------------------------------------------------------------
(* Bounds of the model *)

MaxRuns == 2        \* pipeline runs per behaviour
MaxItems == 1       \* items a flashcard / quiz generation returns (0..MaxItems)
ChunkSize == 3      \* stands for settings.EMBEDDING_CHUNK_SIZE (500), scaled

-----------------------------------------------------------------------------
(* Text helpers: Python str methods on sequences of characters *)

NL == "\n"
Whitespace == {" ", NL}

Max(S) == CHOOSE x \in S : \A y \in S : y <= x
Min(S) == CHOOSE x \in S : \A y \in S : x <= y

\* a slice that takes the character at index b as well
Slice_end_inclusive(s, a, b) == SubSeq(s, a + 1, Min({b + 1, Len(s)}))

\* text[a:b] with 0-based, end-exclusive Python indices
Slice(s, a, b) == SubSeq(s, a + 1, b)

RECURSIVE lstrip(_)
lstrip(s) == IF s # <<>> /\ Head(s) \in Whitespace THEN lstrip(Tail(s)) ELSE s

RECURSIVE rstrip(_)
rstrip(s) ==
    IF s # <<>> /\ s[Len(s)] \in Whitespace
    THEN rstrip(SubSeq(s, 1, Len(s) - 1))
    ELSE s

\* a strip that leaves trailing whitespace in place
strip_left_only(s) == lstrip(s)

strip(s) == rstrip(lstrip(s))

\* text.split("\n\n"): leftmost, non-overlapping separators
RECURSIVE split_paragraphs(_)
split_paragraphs(s) ==
    LET seps == {i \in 1..(Len(s) - 1) : s[i] = NL /\ s[i + 1] = NL}
    IN  IF seps = {} THEN <<s>>
        ELSE LET i == Min(seps)
             IN  <<SubSeq(s, 1, i - 1)>> \o split_paragraphs(SubSeq(s, i + 2, Len(s)))

-----------------------------------------------------------------------------
(* Chunker: MaterialProcessingService._split_into_chunks / _split_by_sentences *)

sentence_endings == {".", "!", "?", NL}

\* the while loop of _split_by_sentences, from position start (0-based)
RECURSIVE sentence_loop(_, _, _)
sentence_loop(txt, chunk_size, start) ==
    LET text_len == Len(txt)
        end == start + chunk_size
    IN  IF start >= text_len THEN <<>>
        ELSE IF end >= text_len THEN <<strip(Slice(txt, start, text_len))>>
        ELSE LET lo == Max({start + (chunk_size \div 2), start})
                 \* range(end, lo, -1) visits end, end-1, ..., lo+1
                 found == {i \in (lo + 1)..end : txt[i + 1] \in sentence_endings}
                 boundary == IF found = {} THEN end ELSE Max(found) + 1
                 chunk == strip(Slice(txt, start, boundary))
             IN  (IF chunk # <<>> THEN <<chunk>> ELSE <<>>)
                 \o sentence_loop(txt, chunk_size, boundary)

split_by_sentences(txt, chunk_size) == sentence_loop(txt, chunk_size, 0)

\* paragraphs that are kept as split, without stripping each of them
paragraphs_of_unstripped(txt) ==
    SelectSeq(split_paragraphs(txt), LAMBDA p : strip(p) # <<>>)

\* paragraphs = [p.strip() for p in text.split("\n\n") if p.strip()]
paragraphs_of(txt) ==
    LET parts == split_paragraphs(txt)
        stripped == [i \in 1..Len(parts) |-> strip(parts[i])]
    IN  SelectSeq(stripped, LAMBDA p : p # <<>>)

\* the loop with a budget test that leaves the separator out
RECURSIVE chunk_loop_separator_uncounted(_, _, _, _)
chunk_loop_separator_uncounted(paras, chunk_size, chunks, current_chunk) ==
    IF paras = <<>>
    THEN IF current_chunk # <<>> THEN Append(chunks, current_chunk) ELSE chunks
    ELSE LET para == Head(paras)
             rest == Tail(paras)
         IN  IF Len(current_chunk) + Len(para) <= chunk_size
             THEN chunk_loop_separator_uncounted(rest, chunk_size, chunks,
                             lstrip(current_chunk \o <<NL, NL>> \o para))
             ELSE LET flushed == IF current_chunk # <<>>
                                 THEN Append(chunks, current_chunk)
                                 ELSE chunks
                  IN  IF Len(para) <= chunk_size
                      THEN chunk_loop_separator_uncounted(rest, chunk_size,
                                                          flushed, para)
                      ELSE LET sub_chunks == split_by_sentences(para, chunk_size)
                           IN  IF sub_chunks # <<>>
                               THEN chunk_loop_separator_uncounted(rest, chunk_size,
                                        flushed \o SubSeq(sub_chunks, 1, Len(sub_chunks) - 1),
                                        sub_chunks[Len(sub_chunks)])
                               ELSE chunk_loop_separator_uncounted(rest, chunk_size,
                                                                   flushed, <<>>)

\* the for loop of _split_into_chunks over the remaining paragraphs
RECURSIVE chunk_loop(_, _, _, _)
chunk_loop(paras, chunk_size, chunks, current_chunk) ==
    IF paras = <<>>
    THEN IF current_chunk # <<>> THEN Append(chunks, current_chunk) ELSE chunks
    ELSE LET para == Head(paras)
             rest == Tail(paras)
         IN  IF Len(current_chunk) + Len(para) + 2 <= chunk_size
             THEN chunk_loop(rest, chunk_size, chunks,
                             lstrip(current_chunk \o <<NL, NL>> \o para))
             ELSE LET flushed == IF current_chunk # <<>>
                                 THEN Append(chunks, current_chunk)
                                 ELSE chunks
                  IN  IF Len(para) <= chunk_size
                      THEN chunk_loop(rest, chunk_size, flushed, para)
                      ELSE LET sub_chunks == split_by_sentences(para, chunk_size)
                           IN  IF sub_chunks # <<>>
                               THEN chunk_loop(rest, chunk_size,
                                        flushed \o SubSeq(sub_chunks, 1, Len(sub_chunks) - 1),
                                        sub_chunks[Len(sub_chunks)])
                               ELSE chunk_loop(rest, chunk_size, flushed, <<>>)

split_into_chunks(txt, chunk_size) ==
    IF txt = <<>> THEN <<>>
    ELSE chunk_loop(paragraphs_of(txt), chunk_size, <<>>, <<>>)

\* _split_into_chunks as a function of its arguments, on every text up to
\* MaxTextLen characters over letters, a sentence terminator, space, newline
MaxTextLen == 6
MaxChunkSize == 4

Alphabet == {"a", ".", " ", NL}

Texts == UNION {[1..n -> Alphabet] : n \in 0..MaxTextLen}

\* test_large_text_split_into_multiple_chunks: chunk_size=100
ExampleTarget == 100

\* a paragraph of n letters
Para(n) == [i \in 1..n |-> "a"]

\* "\n\n".join(paragraphs) for paragraphs of the given lengths
RECURSIVE Paragraphs(_)
Paragraphs(lens) ==
    IF lens = <<>> THEN <<>>
    ELSE IF Len(lens) = 1 THEN Para(Head(lens))
    ELSE Para(Head(lens)) \o <<NL, NL>> \o Paragraphs(Tail(lens))

\* texts of three paragraphs under a chunk size of 100
ExampleTexts == {Paragraphs(<<40, 60, 90>>), Paragraphs(<<40, 58, 90>>)}

NoChunking == [text |-> <<>>, size |-> 1, chunks |-> <<>>, done |-> FALSE]

ChunkerInit == chunked = NoChunking

\* chunks = self._split_into_chunks(full_text, chunk_size)
Chunk ==
    /\ ~chunked.done
    /\ chunked' = [chunked EXCEPT
                      !.chunks = split_into_chunks(chunked.text, chunked.size),
                      !.done = TRUE]
    /\ UNCHANGED <<pipeVars, tutorVars, regen, gw, hcall, writers>>

-----------------------------------------------------------------------------
(* Pipeline: values *)

Kinds == <<"summary", "notes", "flashcards", "quiz">>
KindSet == {Kinds[i] : i \in 1..Len(Kinds)}

NoTx == <<>>

\* Texts a run can extract (outputs of normalize_text, already stripped):
\* empty, one short paragraph, two paragraphs, one paragraph over the budget,
\* three paragraphs.
PipelineTexts ==
    { <<>>,
      <<"a">>,
      <<"a", NL, NL, "b", "c">>,
      <<"a", ".", "b", "c", "d">>,
      <<"a", NL, NL, "b", NL, NL, "c">> }

\* rows of a replace-all artifact generated by run r with n items
Items(r, n) == {<<r, i>> : i \in 1..n}

EmptyRows ==
    [summary |-> 0, notes |-> 0, flashcards |-> {}, quiz |-> {}, embeddings |-> {}]

\* the four generated artifacts of a row set (without the embeddings)
Artifacts(rows) ==
    [summary |-> rows.summary, notes |-> rows.notes,
     flashcards |-> rows.flashcards, quiz |-> rows.quiz]

\* what the four generation calls of the current run returned
Generated ==
    [summary |-> run, notes |-> run,
     flashcards |-> Items(run, cards), quiz |-> Items(run, questions)]

\* for idx, (chunk_text, embedding_vector) in enumerate(zip(chunks, embeddings))
EmbeddingRows(chunks, r) ==
    {[chunk_index |-> i - 1, chunk_text |-> chunks[i], embedding |-> <<r, i - 1>>] :
        i \in 1..Len(chunks)}

-----------------------------------------------------------------------------
(* Pipeline: the session transaction *)

\* A write issued inside "async with self.session.begin()": it changes the
\* pending state of the transaction and nothing a reader can see.
SessionWriteAutocommit(committed, pending, field, value) ==
    [db |-> [committed EXCEPT ![field] = value],
     tx |-> [pending EXCEPT ![field] = value]]

SessionWrite(committed, pending, field, value) ==
    [db |-> committed, tx |-> [pending EXCEPT ![field] = value]]

\* leaving the begin() block on an exception: the pending writes are dropped
RollbackKeepsWrites(committed, pending) == pending

Rollback(committed, pending) == committed

\* leaving the begin() block normally: the pending writes become visible
Commit(committed, pending) == pending

\* the loop at process_material lines 77-88: the first failed call in the
\* order summary, notes, flashcards, quiz, or "none"
first_failure_summary_only(res) ==
    IF res["summary"] = "err" THEN "summary" ELSE "none"

first_failure_last_in_list(res) ==
    LET failed == {i \in 1..Len(Kinds) : res[Kinds[i]] = "err"}
    IN  IF failed = {} THEN "none" ELSE Kinds[Max(failed)]

first_failure(res) ==
    LET failed == {i \in 1..Len(Kinds) : res[Kinds[i]] = "err"}
    IN  IF failed = {} THEN "none" ELSE Kinds[Min(failed)]

-----------------------------------------------------------------------------
(* Pipeline: initial state, after create_material committed the new row *)

PipelineInit ==
    /\ status = "processing"
    /\ progress = 0
    /\ error = "none"
    /\ fullText = <<>>
    /\ db = EmptyRows
    /\ tx = NoTx
    /\ pc = "dispatch"
    /\ run = 0
    /\ text = <<>>
    /\ genRes = [k \in KindSet |-> "pending"]
    /\ failOrder = <<>>
    /\ cards = 0
    /\ questions = 0
    /\ exc = "none"
    /\ failedAt = "none"
    /\ pre = EmptyRows
    /\ trigger = [kind |-> "create", from |-> "none"]

material == <<status, progress, error, fullText>>
runLocals == <<text, genRes, failOrder, cards, questions, exc, failedAt, pre, trigger>>

-----------------------------------------------------------------------------
(* Triggers: POST /{id}/process and POST /{id}/retry.  At most one pipeline *)
(* trigger is outstanding per material (spec section 5), so a trigger is    *)
(* taken only when no run is in progress.                                   *)

ProcessTrigger ==
    /\ pc = "idle"
    /\ run < MaxRuns
    /\ fullText # <<>>
    /\ status' = "processing"
    /\ progress' = 0
    /\ trigger' = [kind |-> "process", from |-> status]
    /\ pc' = "dispatch"
    /\ UNCHANGED <<error, fullText, db, tx, run, text, genRes, failOrder, cards,
                   questions, exc, failedAt, pre>>
    /\ UNCHANGED <<tutorVars, regen, chunked, gw, hcall, writers>>

\* retry_material_processing: "Reset material status"
retry_reset_keeps_error(err) ==
    [status |-> "processing", progress |-> 0, error |-> err]

retry_reset(err) == [status |-> "processing", progress |-> 0, error |-> "none"]

RetryTrigger ==
    /\ pc = "idle"
    /\ run < MaxRuns
    /\ status' = retry_reset(error).status
    /\ progress' = retry_reset(error).progress
    /\ error' = retry_reset(error).error
    /\ trigger' = [kind |-> "retry", from |-> status]
    /\ pc' = "dispatch"
    /\ UNCHANGED <<fullText, db, tx, run, text, genRes, failOrder, cards,
                   questions, exc, failedAt, pre>>
    /\ UNCHANGED <<tutorVars, regen, chunked, gw, hcall, writers>>

\* process_material_task.apply_async returned: a new run is queued
Dispatch ==
    /\ pc = "dispatch"
    /\ pc' = "queued"
    /\ run' = run + 1
    /\ pre' = db
    /\ UNCHANGED trigger
    /\ text' = <<>>
    /\ genRes' = [k \in KindSet |-> "pending"]
    /\ failOrder' = <<>>
    /\ cards' = 0
    /\ questions' = 0
    /\ exc' = "none"
    /\ failedAt' = "none"
    /\ UNCHANGED <<material, db, tx>>
    /\ UNCHANGED <<tutorVars, regen, chunked, gw, hcall, writers>>

\* apply_async raised: the endpoint marks the material failed
DispatchFails ==
    /\ pc = "dispatch"
    /\ status' = "failed"
    /\ error' = "dispatch"
    /\ pc' = "idle"
    /\ UNCHANGED <<progress, fullText, db, tx, run, runLocals>>
    /\ UNCHANGED <<tutorVars, regen, chunked, gw, hcall, writers>>

-----------------------------------------------------------------------------
(* Task wrapper: process_material_task.async_process *)

TaskStart ==
    /\ pc = "queued"
    /\ status' = "processing"
    /\ progress' = 10
    /\ pc' = "extract"
    /\ UNCHANGED <<error, fullText, db, tx, run, runLocals>>
    /\ UNCHANGED <<tutorVars, regen, chunked, gw, hcall, writers>>

\* text extraction and normalisation, then full_text and progress 30
Extract ==
    /\ pc = "extract"
    /\ \E t \in PipelineTexts :
        /\ fullText' = t
        /\ text' = t
    /\ progress' = 30
    /\ pc' = "svc_start"
    /\ UNCHANGED <<status, error, db, tx, run, genRes, failOrder, cards,
                   questions, exc, failedAt, pre, trigger>>
    /\ UNCHANGED <<tutorVars, regen, chunked, gw, hcall, writers>>

ExtractFails ==
    /\ pc = "extract"
    /\ exc' = "extract"
    /\ failedAt' = pc
    /\ pc' = "task_fail"
    /\ UNCHANGED <<material, db, tx, run, text, genRes, failOrder, cards,
                   questions, pre, trigger>>
    /\ UNCHANGED <<tutorVars, regen, chunked, gw, hcall, writers>>

\* Step 3 of the task: mark as completed (again)
TaskComplete ==
    /\ pc = "task_complete"
    /\ status' = "completed"
    /\ progress' = 100
    /\ pc' = "idle"
    /\ UNCHANGED <<error, fullText, db, tx, run, runLocals>>
    /\ UNCHANGED <<tutorVars, regen, chunked, gw, hcall, writers>>

\* except branch of the task: status failed, processing_error = str(e)
TaskFail ==
    /\ pc = "task_fail"
    /\ status' = "failed"
    /\ error' = exc
    /\ pc' = "idle"
    /\ UNCHANGED <<progress, fullText, db, tx, run, runLocals>>
    /\ UNCHANGED <<tutorVars, regen, chunked, gw, hcall, writers>>

-----------------------------------------------------------------------------
(* Service: MaterialProcessingService.process_material *)

\* _update_processing_status(PROCESSING, 35)
SvcStart ==
    /\ pc = "svc_start"
    /\ status' = "processing"
    /\ progress' = 35
    /\ pc' = "gen"
    /\ UNCHANGED <<error, fullText, db, tx, run, runLocals>>
    /\ UNCHANGED <<tutorVars, regen, chunked, gw, hcall, writers>>

\* one of the four calls handed to asyncio.gather(return_exceptions=True)
\* returns; the calls finish in any order
GenReturns(k) ==
    /\ pc = "gen"
    /\ genRes[k] = "pending"
    /\ genRes' = [genRes EXCEPT ![k] = "ok"]
    /\ IF k = "flashcards"
       THEN \E n \in 0..MaxItems : cards' = n
       ELSE cards' = cards
    /\ IF k = "quiz"
       THEN \E n \in 0..MaxItems : questions' = n
       ELSE questions' = questions
    /\ UNCHANGED <<material, db, tx, pc, run, text, failOrder, exc, failedAt, pre, trigger>>
    /\ UNCHANGED <<tutorVars, regen, chunked, gw, hcall, writers>>

GenRaises(k) ==
    /\ pc = "gen"
    /\ genRes[k] = "pending"
    /\ genRes' = [genRes EXCEPT ![k] = "err"]
    /\ failOrder' = Append(failOrder, k)
    /\ UNCHANGED <<material, db, tx, pc, run, text, cards, questions, exc,
                   failedAt, pre, trigger>>
    /\ UNCHANGED <<tutorVars, regen, chunked, gw, hcall, writers>>

\* gather returned: the loop over the four results raises the first exception
\* in list order, otherwise the service goes on to _save_all_results
FanIn ==
    /\ pc = "gen"
    /\ \A k \in KindSet : genRes[k] # "pending"
    /\ LET f == first_failure(genRes)
       IN  IF f # "none"
           THEN /\ exc' = f
                /\ failedAt' = pc
                /\ pc' = "svc_fail"
           ELSE /\ pc' = "save_begin"
                /\ UNCHANGED <<exc, failedAt>>
    /\ UNCHANGED <<material, db, tx, run, text, genRes, failOrder, cards,
                   questions, pre, trigger>>
    /\ UNCHANGED <<tutorVars, regen, chunked, gw, hcall, writers>>

\* _save_all_results: async with self.session.begin()
SaveBegin ==
    /\ pc = "save_begin"
    /\ tx' = db
    /\ pc' = "save_summary"
    /\ UNCHANGED <<material, db, run, runLocals>>
    /\ UNCHANGED <<tutorVars, regen, chunked, gw, hcall, writers>>

\* one write of _save_all_results inside the begin() block
SaveWrite(at, field, value, next) ==
    /\ pc = at
    /\ LET w == SessionWrite(db, tx, field, value)
       IN  /\ db' = w.db
           /\ tx' = w.tx
    /\ pc' = next
    /\ UNCHANGED <<material, run, runLocals>>
    /\ UNCHANGED <<tutorVars, regen, chunked, gw, hcall, writers>>

SaveSummary == SaveWrite("save_summary", "summary", Generated.summary, "save_notes")
SaveNotes == SaveWrite("save_notes", "notes", Generated.notes, "save_flashcards")
SaveFlashcards ==
    SaveWrite("save_flashcards", "flashcards", Generated.flashcards, "save_quiz")
SaveQuiz == SaveWrite("save_quiz", "quiz", Generated.quiz, "save_commit")

SaveCommit ==
    /\ pc = "save_commit"
    /\ db' = Commit(db, tx)
    /\ tx' = NoTx
    /\ pc' = "progress85"
    /\ UNCHANGED <<material, run, runLocals>>
    /\ UNCHANGED <<tutorVars, regen, chunked, gw, hcall, writers>>

SavePcs == {"save_summary", "save_notes", "save_flashcards", "save_quiz", "save_commit"}

\* a statement of the begin() block (or its commit) raises: the block rolls back
SaveFails ==
    /\ pc \in SavePcs
    /\ db' = Rollback(db, tx)
    /\ tx' = NoTx
    /\ exc' = "persist"
    /\ failedAt' = pc
    /\ pc' = "svc_fail"
    /\ UNCHANGED <<material, run, text, genRes, failOrder, cards, questions, pre, trigger>>
    /\ UNCHANGED <<tutorVars, regen, chunked, gw, hcall, writers>>

\* _update_processing_status(PROCESSING, 85)
Progress85 ==
    /\ pc = "progress85"
    /\ status' = "processing"
    /\ progress' = 85
    /\ pc' = "embed"
    /\ UNCHANGED <<error, fullText, db, tx, run, runLocals>>
    /\ UNCHANGED <<tutorVars, regen, chunked, gw, hcall, writers>>

\* _create_embeddings up to the batch call: no chunk -> return at once
EmbedCall ==
    /\ pc = "embed"
    /\ pc' = IF split_into_chunks(text, ChunkSize) = <<>>
             THEN "progress95"
             ELSE "emb_begin"
    /\ UNCHANGED <<material, db, tx, run, runLocals>>
    /\ UNCHANGED <<tutorVars, regen, chunked, gw, hcall, writers>>

\* create_embeddings_batch raises
EmbedCallFails ==
    /\ pc = "embed"
    /\ split_into_chunks(text, ChunkSize) # <<>>
    /\ exc' = "embed"
    /\ failedAt' = pc
    /\ pc' = "svc_fail"
    /\ UNCHANGED <<material, db, tx, run, text, genRes, failOrder, cards,
                   questions, pre, trigger>>
    /\ UNCHANGED <<tutorVars, regen, chunked, gw, hcall, writers>>

\* async with self.session.begin()
EmbedBegin ==
    /\ pc = "emb_begin"
    /\ tx' = db
    /\ pc' = "emb_delete"
    /\ UNCHANGED <<material, db, run, runLocals>>
    /\ UNCHANGED <<tutorVars, regen, chunked, gw, hcall, writers>>

\* delete(MaterialEmbedding).where(material_id == ...)
EmbedDelete ==
    /\ pc = "emb_delete"
    /\ LET w == SessionWrite(db, tx, "embeddings", {})
       IN  /\ db' = w.db
           /\ tx' = w.tx
    /\ pc' = "emb_insert"
    /\ UNCHANGED <<material, run, runLocals>>
    /\ UNCHANGED <<tutorVars, regen, chunked, gw, hcall, writers>>

\* ... and add one row per (chunk, embedding) pair
EmbedInsert ==
    /\ pc = "emb_insert"
    /\ LET rows == EmbeddingRows(split_into_chunks(text, ChunkSize), run)
           w == SessionWrite(db, tx, "embeddings", tx.embeddings \cup rows)
       IN  /\ db' = w.db
           /\ tx' = w.tx
    /\ pc' = "emb_commit"
    /\ UNCHANGED <<material, run, runLocals>>
    /\ UNCHANGED <<tutorVars, regen, chunked, gw, hcall, writers>>

EmbedCommit ==
    /\ pc = "emb_commit"
    /\ db' = Commit(db, tx)
    /\ tx' = NoTx
    /\ pc' = "progress95"
    /\ UNCHANGED <<material, run, runLocals>>
    /\ UNCHANGED <<tutorVars, regen, chunked, gw, hcall, writers>>

EmbedPcs == {"emb_delete", "emb_insert", "emb_commit"}

EmbedSaveFails ==
    /\ pc \in EmbedPcs
    /\ db' = Rollback(db, tx)
    /\ tx' = NoTx
    /\ exc' = "embed_persist"
    /\ failedAt' = pc
    /\ pc' = "svc_fail"
    /\ UNCHANGED <<material, run, text, genRes, failOrder, cards, questions, pre, trigger>>
    /\ UNCHANGED <<tutorVars, regen, chunked, gw, hcall, writers>>

\* _update_processing_status(PROCESSING, 95)
Progress95 ==
    /\ pc = "progress95"
    /\ status' = "processing"
    /\ progress' = 95
    /\ pc' = "svc_complete"
    /\ UNCHANGED <<error, fullText, db, tx, run, runLocals>>
    /\ UNCHANGED <<tutorVars, regen, chunked, gw, hcall, writers>>

\* _update_processing_status(COMPLETED, 100); process_material returns
SvcComplete ==
    /\ pc = "svc_complete"
    /\ status' = "completed"
    /\ progress' = 100
    /\ pc' = "task_complete"
    /\ UNCHANGED <<error, fullText, db, tx, run, runLocals>>
    /\ UNCHANGED <<tutorVars, regen, chunked, gw, hcall, writers>>

\* except branch of process_material: status failed, progress 0, re-raise
SvcFail ==
    /\ pc = "svc_fail"
    /\ status' = "failed"
    /\ progress' = 0
    /\ pc' = "task_fail"
    /\ UNCHANGED <<error, fullText, db, tx, run, runLocals>>
    /\ UNCHANGED <<tutorVars, regen, chunked, gw, hcall, writers>>

-----------------------------------------------------------------------------
(* The relational store raises on a status write (execute or commit) *)

SvcStatusPcs == {"svc_start", "progress85", "progress95", "svc_complete"}

\* inside the try block of process_material: caught by its except branch
SvcStatusWriteFails ==
    /\ pc \in SvcStatusPcs
    /\ exc' = "store"
    /\ failedAt' = pc
    /\ pc' = "svc_fail"
    /\ UNCHANGED <<material, db, tx, run, text, genRes, failOrder, cards,
                   questions, pre, trigger>>
    /\ UNCHANGED <<tutorVars, regen, chunked, gw, hcall, writers>>

\* the FAILED write of process_material's except branch raises: the new
\* exception leaves process_material instead of the original one
SvcFailWriteFails ==
    /\ pc = "svc_fail"
    /\ exc' = "store"
    /\ failedAt' = pc
    /\ pc' = "task_fail"
    /\ UNCHANGED <<material, db, tx, run, text, genRes, failOrder, cards,
                   questions, pre, trigger>>
    /\ UNCHANGED <<tutorVars, regen, chunked, gw, hcall, writers>>

\* a status write of the task wrapper's try block raises (processing/10 at
\* the start, completed/100 at the end): caught by the task's except branch
TaskStatusWriteFails ==
    /\ pc \in {"queued", "task_complete"}
    /\ exc' = "store"
    /\ failedAt' = pc
    /\ pc' = "task_fail"
    /\ UNCHANGED <<material, db, tx, run, text, genRes, failOrder, cards,
                   questions, pre, trigger>>
    /\ UNCHANGED <<tutorVars, regen, chunked, gw, hcall, writers>>

\* the FAILED write of the task's except branch raises: logged and dropped
TaskFailWriteFails ==
    /\ pc = "task_fail"
    /\ pc' = "idle"
    /\ UNCHANGED <<material, db, tx, run, runLocals>>
    /\ UNCHANGED <<tutorVars, regen, chunked, gw, hcall, writers>>

-----------------------------------------------------------------------------
(* Tutor: values *)

MaxAsks == 3          \* send_message calls per behaviour
TopK == 2             \* stands for top_k (5), scaled
FallbackChars == 3    \* stands for max_chars (5000), scaled
MaxHistory == 1       \* stands for max_history (10), scaled
KeyPrefixLen == 2     \* stands for the 16 components hashed into the key

\* thresholds in hundredths of a cosine distance
DISTANCE_THRESHOLD == 70
SEMANTIC_SIM_THRESHOLD == 12

\* distances the vector store can report for a chunk, in hundredths
DistValues == {10, 69, 70}

\* question embeddings: (1,0,0)-(2,1,0) and (2,1,0)-(3,2,0) are closer than
\* the cache threshold, every other pair is farther; (1,0,0) and (1,0,1)
\* agree on the hashed prefix
EmbVectors == { <<1, 0, 0>>, <<2, 1, 0>>, <<3, 2, 0>>, <<1, 0, 1>> }

Miss == 0
NoContent == <<"No content available for this material.">>

Perms(S) ==
    {f \in [1..Cardinality(S) -> S] : \A i, j \in 1..Cardinality(S) : i # j => f[i] # f[j]}

NoScan == [client |-> "none", keysOk |-> FALSE, keys |-> <<>>, reads |-> <<>>]

NoRetrieval ==
    [path |-> "none", why |-> "none", rows |-> <<>>, context |-> <<>>,
     dist |-> <<>>, readAborted |-> FALSE]

\* calls made by the current ask; store counts the setex calls, stored those
\* of them that succeeded
NoCalls ==
    [embed |-> 0, vector |-> 0, history |-> 0, chat |-> 0, store |-> 0,
     stored |-> 0]

TutorIdle ==
    /\ tpc = "idle"
    /\ q = <<>>
    /\ scan = NoScan
    /\ cached = Miss
    /\ aborted = FALSE
    /\ retrieval = NoRetrieval
    /\ hist = <<>>
    /\ answer = Miss
    /\ msgs0 = <<>>
    /\ calls = NoCalls
    /\ returned = Miss
    /\ raised = "none"

TutorInit ==
    /\ TutorIdle
    /\ asks = 0
    /\ cache = <<>>
    /\ messages = <<>>

-----------------------------------------------------------------------------
(* Tutor: _cosine_distance and the semantic cache *)

RECURSIVE DotN(_, _, _)
DotN(a, b, n) == IF n = 0 THEN 0 ELSE a[n] * b[n] + DotN(a, b, n - 1)

\* sum(x * y for x, y in zip(a, b))
Dot(a, b) == DotN(a, b, Min({Len(a), Len(b)}))

\* _cosine_distance(a, b) < thr / 100, in integer arithmetic:
\* a zero norm gives distance 1.0; otherwise 1 - dot/(|a||b|) < t  iff
\* dot > 0 and dot^2 > (1 - t)^2 |a|^2 |b|^2   (for t <= 1)
cosine_distance_below(a, b, thr) ==
    LET dot == Dot(a, b)
        na2 == Dot(a, a)
        nb2 == Dot(b, b)
    IN  IF na2 = 0 \/ nb2 = 0
        THEN 100 < thr
        ELSE /\ dot > 0
             /\ 10000 * dot * dot > (100 - thr) * (100 - thr) * na2 * nb2

\* the key of an entry: a digest of query_embedding[:16]
cache_key(e) == SubSeq(e, 1, Min({KeyPrefixLen, Len(e)}))

\* the for loop of _check_semantic_cache: an entry that reads as None or
\* raises (get, json.loads, missing field) is skipped
RECURSIVE scan_keys_stops_on_error(_, _, _, _)
scan_keys_stops_on_error(keys, reads, store, qe) ==
    IF keys = <<>> THEN Miss
    ELSE LET key == Head(keys)
         IN  IF reads[key] = "raises" THEN Miss
             ELSE IF reads[key] = "gone"
             THEN scan_keys_stops_on_error(Tail(keys), reads, store, qe)
             ELSE IF cosine_distance_below(qe, store[key].embedding, SEMANTIC_SIM_THRESHOLD)
             THEN store[key].answer
             ELSE scan_keys_stops_on_error(Tail(keys), reads, store, qe)

RECURSIVE scan_keys(_, _, _, _)
scan_keys(keys, reads, store, qe) ==
    IF keys = <<>> THEN Miss
    ELSE LET key == Head(keys)
         IN  IF reads[key] # "ok"
             THEN scan_keys(Tail(keys), reads, store, qe)
             ELSE IF cosine_distance_below(qe, store[key].embedding, SEMANTIC_SIM_THRESHOLD)
             THEN store[key].answer
             ELSE scan_keys(Tail(keys), reads, store, qe)

\* _check_semantic_cache: no client or a failing keys() call is a miss
check_semantic_cache(sc, store, qe) ==
    IF sc.client # "up" THEN Miss
    ELSE IF ~sc.keysOk THEN Miss
    ELSE scan_keys(sc.keys, sc.reads, store, qe)

\* what the except clauses around the cache-store operations do with an
\* exception of the given operation: every one of them swallows it
cache_error_policy_unguarded_keys(op) ==
    IF op = "keys" THEN "raise" ELSE "swallow"

cache_error_policy_unguarded_write(op) ==
    IF op = "write" THEN "raise" ELSE "swallow"

cache_error_policy(op) == "swallow"

\* redis.setex(key, ttl, payload)
cache_put(store, qe, ans) ==
    LET key == cache_key(qe)
    IN  [k \in (DOMAIN store) \cup {key} |->
            IF k = key THEN [embedding |-> qe, answer |-> ans] ELSE store[k]]

\* send_message after the cache lookup: a hit goes straight to _save_messages
after_lookup_always_retrieves(hit) == "retrieve"

after_lookup(hit) == IF hit # Miss THEN "save" ELSE "retrieve"

-----------------------------------------------------------------------------
(* Tutor: _find_relevant_context and _fallback_context *)

\* "\n\n".join(context_chunks)
RECURSIVE join(_)
join(texts) ==
    IF texts = <<>> THEN <<>>
    ELSE IF Len(texts) = 1 THEN texts[1]
    ELSE texts[1] \o <<NL, NL>> \o join(Tail(texts))

\* orders in which ORDER BY distance ASC can return the rows (ties in any
\* order); dist[i + 1] is the distance of the row with chunk_index i
Rankings(rows, dist) ==
    {r \in Perms(rows) :
        \A i, j \in 1..Len(r) :
            i < j => dist[r[i].chunk_index + 1] <= dist[r[j].chunk_index + 1]}

\* the result of the SELECT ... ORDER BY distance ASC LIMIT :top_k
vector_search(ranking, dist, top_k) ==
    [i \in 1..Min({top_k, Len(ranking)}) |->
        [chunk_text |-> ranking[i].chunk_text,
         chunk_index |-> ranking[i].chunk_index,
         distance |-> dist[ranking[i].chunk_index + 1]]]

\* relevant = [... for row in rows if row[2] < _DISTANCE_THRESHOLD]
relevant_rows_inclusive(rows) ==
    SelectSeq(rows, LAMBDA r : r.distance <= DISTANCE_THRESHOLD)

relevant_rows(rows) ==
    SelectSeq(rows, LAMBDA r : r.distance < DISTANCE_THRESHOLD)

\* _find_relevant_context after the query returned rows
find_relevant_context(rows, dist) ==
    IF rows = <<>>
    THEN [NoRetrieval EXCEPT !.path = "fallback", !.why = "no_rows", !.dist = dist]
    ELSE LET relevant == relevant_rows(rows)
         IN  IF relevant = <<>>
             THEN [NoRetrieval EXCEPT !.path = "fallback", !.why = "all_far",
                                      !.dist = dist]
             ELSE [NoRetrieval EXCEPT
                      !.path = "vector", !.rows = relevant, !.dist = dist,
                      !.context = join([i \in 1..Len(relevant) |-> relevant[i].chunk_text])]

\* except branch of _find_relevant_context: await self.session.rollback()
session_rollback(failed) == FALSE

\* _fallback_context: the first max_chars characters, or a fixed sentence when
\* the material has no text
fallback_context(full_text, max_chars) ==
    IF full_text = <<>> THEN NoContent
    ELSE SubSeq(full_text, 1, Min({max_chars, Len(full_text)}))

\* _get_conversation_history: the newest max_messages * 2 rows, oldest first
get_conversation_history(msgs, max_messages) ==
    SubSeq(msgs, Max({1, Len(msgs) - 2 * max_messages + 1}), Len(msgs))

-----------------------------------------------------------------------------
(* Tutor: send_message, one action per awaited step *)

callLocals == <<q, scan, cached, aborted, retrieval, hist, answer, msgs0,
                calls, returned, raised>>

\* POST /materials/{id}/tutor: only a completed material can be asked
Ask ==
    /\ tpc = "idle"
    /\ pc = "idle"
    /\ status = "completed"
    /\ asks < MaxAsks
    /\ asks' = asks + 1
    /\ \E e \in EmbVectors : q' = e
    /\ msgs0' = messages
    /\ tpc' = "embed"
    /\ UNCHANGED <<cache, scan, cached, aborted, retrieval, hist, answer,
                   messages, calls, returned, raised>>
    /\ UNCHANGED <<pipeVars, regen, chunked, gw, hcall, writers>>

\* 1. query_embedding = await self.ai_service.create_embedding(user_message)
Embed ==
    /\ tpc = "embed"
    /\ calls' = [calls EXCEPT !.embed = @ + 1]
    /\ tpc' = "lookup"
    /\ UNCHANGED <<asks, q, cache, scan, cached, aborted, retrieval, hist,
                   answer, messages, msgs0, returned, raised>>
    /\ UNCHANGED <<pipeVars, regen, chunked, gw, hcall, writers>>

EmbedRaises ==
    /\ tpc = "embed"
    /\ calls' = [calls EXCEPT !.embed = @ + 1]
    /\ raised' = "embedding"
    /\ tpc' = "done"
    /\ UNCHANGED <<asks, q, cache, scan, cached, aborted, retrieval, hist,
                   answer, messages, msgs0, returned>>
    /\ UNCHANGED <<pipeVars, regen, chunked, gw, hcall, writers>>

\* what the cache store does during one lookup: the client connects or not,
\* keys() answers or raises, the keys come in some order, and each get
\* answers, finds the entry expired, or raises / returns an unparsable value
Scans(store) ==
    {[client |-> "down", keysOk |-> FALSE, keys |-> <<>>, reads |-> <<>>],
     [client |-> "up", keysOk |-> FALSE, keys |-> <<>>, reads |-> <<>>]}
    \cup
    {[client |-> "up", keysOk |-> TRUE, keys |-> ks, reads |-> rd] :
        ks \in Perms(DOMAIN store),
        rd \in [DOMAIN store -> {"ok", "gone", "raises"}]}

\* exceptions of the lookup that its except clauses let through
LookupSurfaces(sc) ==
    \/ sc.client = "down" /\ cache_error_policy("connect") = "raise"
    \/ sc.client = "up" /\ ~sc.keysOk /\ cache_error_policy("keys") = "raise"
    \/ /\ sc.keysOk
       /\ \E k \in DOMAIN sc.reads : sc.reads[k] = "raises"
       /\ cache_error_policy("read") = "raise"

\* 2. cached = await self._check_semantic_cache(...)
Lookup ==
    /\ tpc = "lookup"
    /\ \E sc \in Scans(cache) :
          /\ scan' = sc
          /\ IF LookupSurfaces(sc)
             THEN /\ raised' = "cache"
                  /\ tpc' = "done"
                  /\ UNCHANGED <<cached, answer>>
             ELSE /\ cached' = check_semantic_cache(sc, cache, q)
                  /\ tpc' = "looked"
                  /\ UNCHANGED <<raised, answer>>
    /\ UNCHANGED <<asks, q, cache, aborted, retrieval, hist, messages, msgs0,
                   calls, returned>>
    /\ UNCHANGED <<pipeVars, regen, chunked, gw, hcall, writers>>

\* what send_message can still tell of the lookup once it has returned: the
\* keys and the values read are locals of _check_semantic_cache
LookupOutcome(sc) == [sc EXCEPT !.keys = <<>>, !.reads = <<>>]

\* if cached is not None: ... return cached
Branch ==
    /\ tpc = "looked"
    /\ answer' = cached
    /\ scan' = LookupOutcome(scan)
    /\ tpc' = after_lookup(cached)
    /\ UNCHANGED <<asks, q, cache, cached, aborted, retrieval, hist, messages,
                   msgs0, calls, returned, raised>>
    /\ UNCHANGED <<pipeVars, regen, chunked, gw, hcall, writers>>

\* 3. _find_relevant_context: the vector query answers
Retrieve ==
    /\ tpc = "retrieve"
    /\ LET n == Cardinality(db.embeddings)
       IN  \E dist \in [1..n -> DistValues] :
             \E ranking \in Rankings(db.embeddings, dist) :
                LET found == find_relevant_context(
                                 vector_search(ranking, dist, TopK), dist)
                IN  /\ retrieval' = found
                    /\ tpc' = IF found.path = "vector" THEN "retrieved"
                                                       ELSE "fallback"
    /\ calls' = [calls EXCEPT !.vector = @ + 1]
    /\ UNCHANGED <<asks, q, cache, scan, cached, aborted, hist, answer,
                   messages, msgs0, returned, raised>>
    /\ UNCHANGED <<pipeVars, regen, chunked, gw, hcall, writers>>

\* the vector query raises: the session's transaction is now aborted
RetrieveRaises ==
    /\ tpc = "retrieve"
    /\ calls' = [calls EXCEPT !.vector = @ + 1]
    /\ aborted' = TRUE
    /\ retrieval' = [NoRetrieval EXCEPT !.why = "error"]
    /\ tpc' = "rollback"
    /\ UNCHANGED <<asks, q, cache, scan, cached, hist, answer, messages,
                   msgs0, returned, raised>>
    /\ UNCHANGED <<pipeVars, regen, chunked, gw, hcall, writers>>

\* except Exception: await self.session.rollback()
RollbackSession ==
    /\ tpc = "rollback"
    /\ aborted' = session_rollback(aborted)
    /\ tpc' = "fallback"
    /\ UNCHANGED <<asks, q, cache, scan, cached, retrieval, hist, answer,
                   messages, msgs0, calls, returned, raised>>
    /\ UNCHANGED <<pipeVars, regen, chunked, gw, hcall, writers>>

\* _fallback_context: a SELECT on the same session; it raises when the
\* session's transaction is still aborted
FallbackRead ==
    /\ tpc = "fallback"
    /\ IF aborted
       THEN /\ raised' = "retrieval"
            /\ tpc' = "done"
            /\ retrieval' = [retrieval EXCEPT !.readAborted = TRUE]
       ELSE /\ retrieval' = [retrieval EXCEPT
                                !.path = "fallback",
                                !.context = fallback_context(fullText, FallbackChars)]
            /\ tpc' = "retrieved"
            /\ UNCHANGED raised
    /\ UNCHANGED <<asks, q, cache, scan, cached, aborted, hist, answer,
                   messages, msgs0, calls, returned>>
    /\ UNCHANGED <<pipeVars, regen, chunked, gw, hcall, writers>>

\* what _find_relevant_context hands back to send_message: the context (and
\* the path that produced it); the rows of the query are its locals
RelevantContext(found) == [found EXCEPT !.rows = <<>>, !.dist = <<>>]

\* 4. conversation_history = await self._get_conversation_history(...)
LoadHistory ==
    /\ tpc = "retrieved"
    /\ retrieval' = RelevantContext(retrieval)
    /\ hist' = get_conversation_history(messages, MaxHistory)
    /\ calls' = [calls EXCEPT !.history = @ + 1]
    /\ tpc' = "chat"
    /\ UNCHANGED <<asks, q, cache, scan, cached, aborted, answer,
                   messages, msgs0, returned, raised>>
    /\ UNCHANGED <<pipeVars, regen, chunked, gw, hcall, writers>>

\* where send_message goes after chat_with_context: an exception leaves the
\* method, a response goes on to the cache store
after_generation_saves_turns(failed) == IF failed THEN "save" ELSE "store"

after_generation(failed) == IF failed THEN "done" ELSE "store"

\* 5. ai_response = await self.ai_service.chat_with_context(...)
Chat ==
    /\ tpc = "chat"
    /\ answer' = asks
    /\ calls' = [calls EXCEPT !.chat = @ + 1]
    /\ tpc' = after_generation(FALSE)
    /\ UNCHANGED <<asks, q, cache, scan, cached, aborted, retrieval, hist,
                   messages, msgs0, returned, raised>>
    /\ UNCHANGED <<pipeVars, regen, chunked, gw, hcall, writers>>

ChatRaises ==
    /\ tpc = "chat"
    /\ calls' = [calls EXCEPT !.chat = @ + 1]
    /\ raised' = "chat"
    /\ tpc' = after_generation(TRUE)
    /\ UNCHANGED <<asks, q, cache, scan, cached, aborted, retrieval, hist,
                   answer, messages, msgs0, returned>>
    /\ UNCHANGED <<pipeVars, regen, chunked, gw, hcall, writers>>

\* 6. _store_semantic_cache: no client, a setex that succeeds, a setex that
\* raises
StoreCache ==
    /\ tpc = "store"
    /\ \/ /\ UNCHANGED <<cache, calls, raised>>
          /\ tpc' = "save"
       \/ /\ cache' = cache_put(cache, q, answer)
          /\ calls' = [calls EXCEPT !.store = @ + 1, !.stored = @ + 1]
          /\ tpc' = "save"
          /\ UNCHANGED raised
       \/ /\ calls' = [calls EXCEPT !.store = @ + 1]
          /\ IF cache_error_policy("write") = "raise"
             THEN raised' = "cache" /\ tpc' = "done"
             ELSE tpc' = "save" /\ UNCHANGED raised
          /\ UNCHANGED cache
    /\ UNCHANGED <<asks, q, scan, cached, aborted, retrieval, hist, answer,
                   messages, msgs0, returned>>
    /\ UNCHANGED <<pipeVars, regen, chunked, gw, hcall, writers>>

\* _save_messages: the user turn and the assistant turn, one commit; then
\* return the answer
SaveMessages ==
    /\ tpc = "save"
    /\ messages' = messages \o <<[role |-> "user", content |-> q],
                                 [role |-> "assistant", content |-> <<answer>>]>>
    /\ returned' = answer
    /\ tpc' = "done"
    /\ UNCHANGED <<asks, q, cache, scan, cached, aborted, retrieval, hist,
                   answer, msgs0, calls, raised>>
    /\ UNCHANGED <<pipeVars, regen, chunked, gw, hcall, writers>>

\* the call is over; the next one starts with fresh locals
Return ==
    /\ tpc = "done"
    /\ tpc' = "idle"
    /\ q' = <<>>
    /\ scan' = NoScan
    /\ cached' = Miss
    /\ aborted' = FALSE
    /\ retrieval' = NoRetrieval
    /\ hist' = <<>>
    /\ answer' = Miss
    /\ msgs0' = <<>>
    /\ calls' = NoCalls
    /\ returned' = Miss
    /\ raised' = "none"
    /\ UNCHANGED <<asks, cache, messages>>
    /\ UNCHANGED <<pipeVars, regen, chunked, gw, hcall, writers>>

\* an entry reaches its time-to-live (_SEMANTIC_CACHE_TTL) between two calls
Expire ==
    /\ tpc = "idle"
    /\ \E key \in DOMAIN cache :
          cache' = [k \in (DOMAIN cache) \ {key} |-> cache[k]]
    /\ UNCHANGED <<tpc, asks, messages, callLocals>>
    /\ UNCHANGED <<pipeVars, regen, chunked, gw, hcall, writers>>

-----------------------------------------------------------------------------
(* Regeneration: POST /{id}/regenerate/{summary,notes,flashcards,quiz} and     *)
(* MaterialProcessingService.regenerate_*, on the request's own session        *)

MaxRegens == 2        \* regenerate_* calls per behaviour

NoRegen ==
    [kind |-> "none", id |-> 0, n |-> 0, raised |-> "none", pre |-> EmptyRows]

RegenInit == regen = NoRegen

\* tag of the content generated by the k-th regeneration (run tags are 1..MaxRuns)
RegenTag(k) == MaxRuns + k

\* what the generation call of the current regeneration returned
Regenerated ==
    IF regen.kind \in {"flashcards", "quiz"}
    THEN Items(RegenTag(regen.id), regen.n)
    ELSE RegenTag(regen.id)

\* rows written by regenerate_* before its generation call returns: none
regen_clears_target_first(rows, kind) ==
    [rows EXCEPT ![kind] = IF kind \in {"flashcards", "quiz"} THEN {} ELSE 0]

writes_before_generation(rows, kind) == rows

\* Session.begin() on a session that already has a transaction (here the one
\* the SELECT of _get_material began) raises InvalidRequestError
session_begin_raises(pending) == pending # NoTx

\* upsert (summary, notes) or delete-then-insert (flashcards, quiz) of one kind
regenerated(rows, kind, value) == [rows EXCEPT ![kind] = value]

\* the endpoint calls the service
RegenCall(k) ==
    /\ pc = "idle"
    /\ tpc = "idle"
    /\ regen.id < MaxRegens
    /\ regen' = [kind |-> k, id |-> regen.id + 1, n |-> 0, raised |-> "none",
                 pre |-> db]
    /\ pc' = "regen_get"
    /\ UNCHANGED <<material, db, tx, run, runLocals>>
    /\ UNCHANGED <<tutorVars, chunked, gw, hcall, writers>>

\* material = await self._get_material(material_id); if not material.full_text
RegenGetMaterial ==
    /\ pc = "regen_get"
    /\ tx' = db
    /\ IF fullText = <<>>
       THEN /\ regen' = [regen EXCEPT !.raised = "no_text"]
            /\ pc' = "regen_done"
            /\ UNCHANGED db
       ELSE /\ db' = writes_before_generation(db, regen.kind)
            /\ pc' = "regen_gen"
            /\ UNCHANGED regen
    /\ UNCHANGED <<material, run, runLocals>>
    /\ UNCHANGED <<tutorVars, chunked, gw, hcall, writers>>

\* the generation call returns n items (one text for summary and notes)
RegenGenerate ==
    /\ pc = "regen_gen"
    /\ \E n \in 0..MaxItems : regen' = [regen EXCEPT !.n = n]
    /\ pc' = "regen_persist"
    /\ UNCHANGED <<material, db, tx, run, runLocals>>
    /\ UNCHANGED <<tutorVars, chunked, gw, hcall, writers>>

RegenGenerateRaises ==
    /\ pc = "regen_gen"
    /\ regen' = [regen EXCEPT !.raised = "generation"]
    /\ pc' = "regen_done"
    /\ UNCHANGED <<material, db, tx, run, runLocals>>
    /\ UNCHANGED <<tutorVars, chunked, gw, hcall, writers>>

\* async with self.session.begin(): replace the artifact of this kind
RegenPersist ==
    /\ pc = "regen_persist"
    /\ IF session_begin_raises(tx)
       THEN /\ regen' = [regen EXCEPT !.raised = "already_begun"]
            /\ UNCHANGED <<db, tx>>
       ELSE /\ db' = regenerated(db, regen.kind, Regenerated)
            /\ tx' = NoTx
            /\ UNCHANGED regen
    /\ pc' = "regen_done"
    /\ UNCHANGED <<material, run, runLocals>>
    /\ UNCHANGED <<tutorVars, chunked, gw, hcall, writers>>

\* get_async_session: commit after the endpoint returned, rollback after an
\* exception, then close
RegenReturn ==
    /\ pc = "regen_done"
    /\ db' = IF tx = NoTx THEN db
             ELSE IF regen.raised = "none" THEN Commit(db, tx)
             ELSE Rollback(db, tx)
    /\ tx' = NoTx
    /\ pc' = "idle"
    /\ UNCHANGED <<material, run, runLocals, regen>>
    /\ UNCHANGED <<tutorVars, chunked, gw, hcall, writers>>

-----------------------------------------------------------------------------
(* Generation gateway: OpenAIService.generate_flashcards / generate_quiz /  *)
(* create_embedding over the retried provider calls _call_chat and          *)
(* _call_embeddings                                                         *)

MaxCalls == 2       \* gateway calls per behaviour
MaxRaw == 2         \* items in one model output
MAX_ATTEMPTS == 3   \* stop_after_attempt(3)

\* the value of an absent key of a JSON object
Missing == "MISSING"

GwKinds == {"flashcards", "quiz", "embedding"}

\* items of a "flashcards" array: JSON objects with or without each key, and
\* null, which is no object
FlashcardItems ==
    [obj : {TRUE}, question : {"q", Missing}, answer : {"r", Missing}]
        \cup {[obj |-> FALSE, question |-> Missing, answer |-> Missing]}

QuizItem(qn, b, c) ==
    [obj |-> TRUE, question |-> qn, option_a |-> "x", option_b |-> b,
     option_c |-> "z", option_d |-> "w", correct_option |-> c]

\* items of a "questions" array: the answer as option text, as a bare letter
\* (also where another option's text is that letter), as a text that is no
\* option, as an upper-case letter, absent; the question absent; null
QuizItems ==
    {QuizItem("q", "y", "y"), QuizItem("q", "y", "b"), QuizItem("q", "a", "a"),
     QuizItem("q", "y", "n"), QuizItem("q", "y", "B"), QuizItem("q", "y", Missing),
     QuizItem(Missing, "y", "y")}
        \cup {[obj |-> FALSE, question |-> Missing, option_a |-> Missing,
               option_b |-> Missing, option_c |-> Missing, option_d |-> Missing,
               correct_option |-> Missing]}

\* data.get("flashcards", []) / data.get("questions", []) of a model output
RawOutputs(kind) ==
    IF kind = "flashcards" THEN UNION {[1..n -> FlashcardItems] : n \in 0..MaxRaw}
    ELSE IF kind = "quiz" THEN UNION {[1..n -> QuizItems] : n \in 0..MaxRaw}
    ELSE {<<>>}

\* k in item; on an item that is no object (null) the test raises TypeError
has_key(item, k) == item[k] # Missing

QuizKeys ==
    <<"question", "option_a", "option_b", "option_c", "option_d", "correct_option">>

\* the letter is taken as it is, not mapped to its option
coerce_keeps_letter(item) == item

\* if correct in ["a", "b", "c", "d"]: q["correct_option"] = option_map[correct]
coerce(item) ==
    IF item.correct_option = "a" THEN [item EXCEPT !.correct_option = item.option_a]
    ELSE IF item.correct_option = "b" THEN [item EXCEPT !.correct_option = item.option_b]
    ELSE IF item.correct_option = "c" THEN [item EXCEPT !.correct_option = item.option_c]
    ELSE IF item.correct_option = "d" THEN [item EXCEPT !.correct_option = item.option_d]
    ELSE item

\* the validation loops of generate_flashcards and generate_quiz
RECURSIVE validated(_, _)
validated(kind, items) ==
    IF items = <<>> THEN <<>>
    ELSE LET item == Head(items)
             rest == validated(kind, Tail(items))
         IN  IF kind = "flashcards"
             THEN IF has_key(item, "question") /\ has_key(item, "answer")
                  THEN <<[obj |-> TRUE, question |-> item.question,
                          answer |-> item.answer]>> \o rest
                  ELSE rest
             ELSE IF \A i \in 1..Len(QuizKeys) : has_key(item, QuizKeys[i])
                  THEN LET co == coerce(item)
                       IN  IF co.correct_option
                                 \in {co.option_a, co.option_b, co.option_c, co.option_d}
                           THEN <<co>> \o rest
                           ELSE rest
                  ELSE rest

\* the loop raises TypeError on an item that is no object
validation_raises(items) == \E i \in 1..Len(items) : ~items[i].obj

NoCached == [present |-> FALSE, value |-> <<>>]

NoCall ==
    [pc |-> "idle", kind |-> "none", attempts |-> 0, last |-> "none",
     raw |-> <<>>, outcome |-> "none", exc |-> "none", result |-> <<>>,
     hit |-> FALSE]

GatewayInit ==
    gw = [call |-> NoCall, calls |-> 0,
          cache |-> [flashcards |-> NoCached, quiz |-> NoCached]]

\* exceptions of client.chat.completions.create / client.embeddings.create
ProviderErrors == {"APIError", "APITimeoutError", "RateLimitError", "Other"}

\* retry_if_exception_type((APIError, APITimeoutError, RateLimitError))
retry_if(e) == e \in {"APIError", "APITimeoutError", "RateLimitError"}

\* one attempt more than stop_after_attempt(3) allows
may_retry_once_more(attempt) == attempt <= MAX_ATTEMPTS

\* stop_after_attempt(3): after a failed attempt, another one follows
may_retry(attempt) == attempt < MAX_ATTEMPTS

\* a public gateway method is called: cache_key = ...; cached = _get_cached(key)
GwCall(kind) ==
    /\ gw.call.pc = "idle"
    /\ gw.calls < MaxCalls
    /\ gw' = [gw EXCEPT !.call = [NoCall EXCEPT !.pc = "lookup", !.kind = kind],
                        !.calls = @ + 1]
    /\ UNCHANGED <<pipeVars, tutorVars, regen, chunked, hcall, writers>>

\* if cached: return json.loads(cached)
GwCacheHit ==
    /\ gw.call.pc = "lookup"
    /\ gw.call.kind # "embedding"
    /\ gw.cache[gw.call.kind].present
    /\ gw' = [gw EXCEPT !.call.pc = "done", !.call.hit = TRUE,
                        !.call.outcome = "returned",
                        !.call.result = gw.cache[gw.call.kind].value]
    /\ UNCHANGED <<pipeVars, tutorVars, regen, chunked, hcall, writers>>

\* no entry, no Redis, or redis.get raised (swallowed by _get_cached);
\* create_embedding looks nothing up
GwCacheMiss ==
    /\ gw.call.pc = "lookup"
    /\ gw' = [gw EXCEPT !.call.pc = "attempt"]
    /\ UNCHANGED <<pipeVars, tutorVars, regen, chunked, hcall, writers>>

\* an attempt of _call_chat / _call_embeddings returns a response whose
\* content parses: data = json.loads(content)
GwAttemptReturns ==
    /\ gw.call.pc = "attempt"
    /\ \E raw \in RawOutputs(gw.call.kind) :
          gw' = [gw EXCEPT !.call.pc = "parse", !.call.attempts = @ + 1,
                           !.call.last = "ok", !.call.raw = raw]
    /\ UNCHANGED <<pipeVars, tutorVars, regen, chunked, hcall, writers>>

\* an attempt raises: tenacity sleeps and tries again, or raises RetryError
\* after the last attempt, or lets an exception it does not retry through
GwAttemptRaises ==
    /\ gw.call.pc = "attempt"
    /\ \E e \in ProviderErrors :
          LET attempt == gw.call.attempts + 1
          IN  gw' = [gw EXCEPT
                  !.call.attempts = attempt,
                  !.call.last = IF retry_if(e) THEN "retriable" ELSE "fatal",
                  !.call.pc = IF retry_if(e) /\ may_retry(attempt)
                              THEN "attempt" ELSE "done",
                  !.call.outcome = IF retry_if(e) /\ may_retry(attempt)
                                   THEN "none" ELSE "raised",
                  !.call.exc = IF ~retry_if(e) THEN e
                               ELSE IF may_retry(attempt) THEN "none"
                               ELSE "RetryError"]
    /\ UNCHANGED <<pipeVars, tutorVars, regen, chunked, hcall, writers>>

\* the response content is no JSON: json.loads raises, the except block
\* logs and raises again
GwContentUnparsable ==
    /\ gw.call.pc = "parse"
    /\ gw.call.kind # "embedding"
    /\ gw' = [gw EXCEPT !.call.pc = "done", !.call.raw = <<>>,
                        !.call.outcome = "raised",
                        !.call.exc = "JSONDecodeError"]
    /\ UNCHANGED <<pipeVars, tutorVars, regen, chunked, hcall, writers>>

\* the validation loop, _set_cached (which swallows a failing Redis) and the
\* return; an item that is no object ends the call with TypeError
GwValidate ==
    /\ gw.call.pc = "parse"
    /\ IF gw.call.kind # "embedding" /\ validation_raises(gw.call.raw)
       THEN gw' = [gw EXCEPT !.call.pc = "done", !.call.outcome = "raised",
                            !.call.exc = "TypeError"]
       ELSE LET res == validated(gw.call.kind, gw.call.raw)
            IN  \E stored \in BOOLEAN :
                  gw' = [gw EXCEPT
                      !.call.pc = "done", !.call.outcome = "returned",
                      !.call.result = res,
                      !.cache = IF stored /\ gw.call.kind # "embedding"
                                THEN [@ EXCEPT ![gw.call.kind] =
                                         [present |-> TRUE, value |-> res]]
                                ELSE @]
    /\ UNCHANGED <<pipeVars, tutorVars, regen, chunked, hcall, writers>>

\* the caller has the call's outcome; the cache entry stays
GwReturn ==
    /\ gw.call.pc = "done"
    /\ gw' = [gw EXCEPT !.call = NoCall]
    /\ UNCHANGED <<pipeVars, tutorVars, regen, chunked, hcall, writers>>

-----------------------------------------------------------------------------
(* Conversation history: TutorService._get_conversation_history and the     *)
(* slice chat_with_context takes of it                                      *)

MaxLimit == 11      \* largest max_history given to send_message
MaxStored == 23     \* most stored messages of the material
CHAT_HISTORY_WINDOW == 10   \* conversation_history[-10:]

HistoryInit ==
    hcall = [limit |-> 0, stored |-> <<>>, loaded |-> <<>>, passed |-> <<>>,
             pc |-> "idle"]

\* messages.extend(conversation_history[-10:])
chat_history(conversation_history) ==
    SubSeq(conversation_history,
           Max({1, Len(conversation_history) - CHAT_HISTORY_WINDOW + 1}),
           Len(conversation_history))

\* 4. conversation_history = await self._get_conversation_history(...)
HistoryLoad ==
    /\ hcall.pc = "load"
    /\ hcall' = [hcall EXCEPT
                    !.loaded = get_conversation_history(hcall.stored, hcall.limit),
                    !.pc = "chat"]
    /\ UNCHANGED <<pipeVars, tutorVars, regen, chunked, gw, writers>>

\* 5. chat_with_context(question, context, conversation_history)
HistoryChat ==
    /\ hcall.pc = "chat"
    /\ hcall' = [hcall EXCEPT !.passed = chat_history(hcall.loaded), !.pc = "done"]
    /\ UNCHANGED <<pipeVars, tutorVars, regen, chunked, gw, writers>>

-----------------------------------------------------------------------------
(* Overlapping replace-all writers *)

NWriters == 2       \* requests that can be in flight together

\* each request has its own session (get_db), with its own transaction
WritersInit ==
    writers = [w \in 1..NWriters |->
                  [pc |-> "idle", tx |-> NoTx, out |-> {}, generated |-> FALSE,
                   raised |-> "none", overlapped |-> FALSE]]

\* POST /{id}/regenerate/flashcards: verify_material_owner runs a SELECT, which
\* begins the session's transaction, then the service is called
WriterCall(w) ==
    /\ pc = "idle"
    /\ writers[w].pc = "idle"
    /\ writers' = [writers EXCEPT
                      ![w].pc = "get", ![w].tx = db,
                      ![w].overlapped =
                          \E v \in 1..NWriters :
                              v # w /\ writers[v].pc \notin {"idle", "returned"}]
    /\ UNCHANGED <<pipeVars, tutorVars, regen, chunked, gw, hcall>>

\* material = await self._get_material(material_id); if not material.full_text
WriterGetMaterial(w) ==
    /\ writers[w].pc = "get"
    /\ writers' = IF fullText = <<>>
                  THEN [writers EXCEPT ![w].pc = "done", ![w].raised = "no_text"]
                  ELSE [writers EXCEPT ![w].pc = "gen"]
    /\ UNCHANGED <<pipeVars, tutorVars, regen, chunked, gw, hcall>>

\* flashcards_data = await self.ai_service.generate_flashcards(...): a list of
\* items of this request, or an exception
WriterGenerate(w) ==
    /\ writers[w].pc = "gen"
    /\ \/ \E n \in 0..MaxItems :
             writers' = [writers EXCEPT ![w].pc = "persist", ![w].generated = TRUE,
                                        ![w].out = Items(RegenTag(w), n)]
       \/ writers' = [writers EXCEPT ![w].pc = "done", ![w].raised = "generation"]
    /\ UNCHANGED <<pipeVars, tutorVars, regen, chunked, gw, hcall>>

\* async with self.session.begin(): delete the flashcards, add the new ones
WriterPersist(w) ==
    /\ writers[w].pc = "persist"
    /\ IF session_begin_raises(writers[w].tx)
       THEN /\ writers' = [writers EXCEPT ![w].pc = "done",
                                          ![w].raised = "already_begun"]
            /\ UNCHANGED db
       ELSE /\ writers' = [writers EXCEPT ![w].pc = "done", ![w].tx = NoTx]
            /\ db' = regenerated(db, "flashcards", writers[w].out)
    /\ UNCHANGED <<material, tx, pc, run, runLocals>>
    /\ UNCHANGED <<tutorVars, regen, chunked, gw, hcall>>

\* get_async_session: rollback after the exception (commit otherwise), close
WriterReturn(w) ==
    /\ writers[w].pc = "done"
    /\ writers' = [writers EXCEPT ![w].pc = "returned", ![w].tx = NoTx]
    /\ UNCHANGED <<pipeVars, tutorVars, regen, chunked, gw, hcall>>

-----------------------------------------------------------------------------
(* Specifications *)

Triggers == ProcessTrigger \/ RetryTrigger \/ Dispatch \/ DispatchFails

Task == TaskStart \/ Extract \/ ExtractFails \/ TaskComplete \/ TaskFail

Service ==
    \/ SvcStart
    \/ \E k \in KindSet : GenReturns(k)
    \/ \E k \in KindSet : GenRaises(k)
    \/ FanIn
    \/ SaveBegin \/ SaveSummary \/ SaveNotes \/ SaveFlashcards \/ SaveQuiz
    \/ SaveCommit \/ SaveFails
    \/ Progress85
    \/ EmbedCall \/ EmbedCallFails \/ EmbedBegin \/ EmbedDelete \/ EmbedInsert
    \/ EmbedCommit \/ EmbedSaveFails
    \/ Progress95 \/ SvcComplete \/ SvcFail

StoreFault ==
    \/ SvcStatusWriteFails \/ SvcFailWriteFails
    \/ TaskStatusWriteFails \/ TaskFailWriteFails

Next == Triggers \/ Task \/ Service

\* the pipeline with generation, persistence and embedding failures
Init == PipelineInit /\ TutorInit /\ RegenInit /\ ChunkerInit /\ GatewayInit
        /\ HistoryInit /\ WritersInit

Spec == Init /\ [][Next]_vars

NextStoreFault == Next \/ StoreFault

\* the same, where the store may also raise on any status write
SpecStoreFault == Init /\ [][NextStoreFault]_vars

\* a material as one successful first run on some text leaves it
CompletedMaterial ==
    /\ fullText \in PipelineTexts
    /\ text = fullText
    /\ status = "completed"
    /\ progress = 100
    /\ error = "none"
    /\ db = [summary |-> 1, notes |-> 1,
             flashcards |-> Items(1, 1), quiz |-> Items(1, 1),
             embeddings |-> EmbeddingRows(split_into_chunks(fullText, ChunkSize), 1)]
    /\ tx = NoTx
    /\ pc = "idle"
    /\ run = 1
    /\ genRes = [k \in KindSet |-> "ok"]
    /\ failOrder = <<>>
    /\ cards = 1
    /\ questions = 1
    /\ exc = "none"
    /\ failedAt = "none"
    /\ pre = EmptyRows
    /\ trigger = [kind |-> "create", from |-> "none"]

InitTutor == CompletedMaterial /\ TutorInit /\ RegenInit /\ ChunkerInit /\ GatewayInit
        /\ HistoryInit /\ WritersInit

NextTutor ==
    \/ Ask \/ Embed \/ EmbedRaises \/ Lookup \/ Branch
    \/ Retrieve \/ RetrieveRaises \/ RollbackSession \/ FallbackRead
    \/ LoadHistory \/ Chat \/ ChatRaises \/ StoreCache \/ SaveMessages
    \/ Return \/ Expire

\* the tutor answering questions about a completed material
SpecTutor == InitTutor /\ [][NextTutor]_vars

InitRegen == CompletedMaterial /\ TutorInit /\ RegenInit /\ ChunkerInit /\ GatewayInit
        /\ HistoryInit /\ WritersInit

NextRegen ==
    \/ \E k \in KindSet : RegenCall(k)
    \/ RegenGetMaterial \/ RegenGenerate \/ RegenGenerateRaises
    \/ RegenPersist \/ RegenReturn

\* single-artifact regeneration requests on a completed material
SpecRegen == InitRegen /\ [][NextRegen]_vars

\* _split_by_sentences, one loop iteration per step ---------------------------

MaxSentenceLen == 5     \* longest text given to the step-wise splitter

\* a window that ends half a chunk after its start
sentence_boundary_half_window(txt, chunk_size, start) ==
    LET end == start + (chunk_size \div 2)
        lo == Max({start + (chunk_size \div 2), start})
        found == {i \in (lo + 1)..end : txt[i + 1] \in sentence_endings}
    IN  IF found = {} THEN end ELSE Max(found) + 1

\* boundary = end; for i in range(end, max(start + chunk_size // 2, start), -1):
\*     if text[i] in sentence_endings: boundary = i + 1; break
sentence_boundary(txt, chunk_size, start) ==
    LET end == start + chunk_size
        lo == Max({start + (chunk_size \div 2), start})
        found == {i \in (lo + 1)..end : txt[i + 1] \in sentence_endings}
    IN  IF found = {} THEN end ELSE Max(found) + 1

\* while start < text_len, end < text_len: cut at the boundary, go on from it
SentenceCut ==
    /\ ~chunked.done
    /\ chunked.start < Len(chunked.text)
    /\ chunked.start + chunked.size < Len(chunked.text)
    /\ LET boundary == sentence_boundary(chunked.text, chunked.size, chunked.start)
           chunk == strip(Slice(chunked.text, chunked.start, boundary))
       IN  chunked' = [chunked EXCEPT
                          !.chunks = IF chunk # <<>> THEN Append(@, chunk) ELSE @,
                          !.start = boundary]
    /\ UNCHANGED <<pipeVars, tutorVars, regen, gw, hcall, writers>>

\* end >= text_len: chunks.append(text[start:].strip()); break; return chunks
SentenceLast ==
    /\ ~chunked.done
    /\ chunked.start < Len(chunked.text)
    /\ chunked.start + chunked.size >= Len(chunked.text)
    /\ chunked' = [chunked EXCEPT
                      !.chunks = Append(@, strip(Slice(chunked.text, chunked.start,
                                                       Len(chunked.text)))),
                      !.done = TRUE]
    /\ UNCHANGED <<pipeVars, tutorVars, regen, gw, hcall, writers>>

\* start >= text_len: the while loop ends; return chunks
SentenceReturn ==
    /\ ~chunked.done
    /\ chunked.start >= Len(chunked.text)
    /\ chunked' = [chunked EXCEPT !.done = TRUE]
    /\ UNCHANGED <<pipeVars, tutorVars, regen, gw, hcall, writers>>

InitSentences ==
    /\ PipelineInit /\ TutorInit /\ RegenInit /\ GatewayInit
    /\ HistoryInit /\ WritersInit
    /\ \E t \in {x \in Texts : Len(x) <= MaxSentenceLen}, n \in 1..MaxChunkSize :
          chunked = [text |-> t, size |-> n, chunks |-> <<>>, done |-> FALSE,
                     start |-> 0]

NextSentences == SentenceCut \/ SentenceLast \/ SentenceReturn

\* a call of _split_by_sentences runs on its own: a step that can be taken
\* is taken
SpecSentences == InitSentences /\ [][NextSentences]_vars /\ WF_vars(NextSentences)

NextGateway ==
    \/ \E kind \in GwKinds : GwCall(kind)
    \/ GwCacheHit \/ GwCacheMiss
    \/ GwAttemptReturns \/ GwAttemptRaises
    \/ GwContentUnparsable \/ GwValidate
    \/ GwReturn

\* calls of the generation gateway, one at a time
SpecGateway == Init /\ [][NextGateway]_vars

InitWriters ==
    /\ CompletedMaterial /\ TutorInit /\ RegenInit /\ ChunkerInit /\ GatewayInit
    /\ HistoryInit /\ WritersInit

NextWriters ==
    \E w \in 1..NWriters :
        \/ WriterCall(w) \/ WriterGetMaterial(w) \/ WriterGenerate(w)
        \/ WriterPersist(w) \/ WriterReturn(w)

\* regenerate_flashcards requests on a completed material, free to overlap
SpecWriters == InitWriters /\ [][NextWriters]_vars

InitHistory ==
    /\ PipelineInit /\ TutorInit /\ RegenInit /\ ChunkerInit /\ GatewayInit
    /\ WritersInit
    /\ \E h \in 0..MaxLimit, n \in 0..MaxStored :
          \* the material's messages, oldest first: message i was created i-th
          hcall = [limit |-> h, stored |-> [i \in 1..n |-> i], loaded |-> <<>>,
                   passed |-> <<>>, pc |-> "load"]

\* the cache-miss path's history for every limit and every stored length
SpecHistory == InitHistory /\ [][HistoryLoad \/ HistoryChat]_vars

InitChunker ==
    /\ PipelineInit /\ TutorInit /\ RegenInit /\ GatewayInit
    /\ HistoryInit /\ WritersInit
    /\ \/ \E t \in Texts, n \in 1..MaxChunkSize :
             chunked = [text |-> t, size |-> n, chunks |-> <<>>, done |-> FALSE]
       \/ \E t \in Texts \cup ExampleTexts :
             chunked = [text |-> t, size |-> ExampleTarget, chunks |-> <<>>,
                        done |-> FALSE]

\* the chunker applied to every bounded text and chunk size
SpecChunker == InitChunker /\ [][Chunk]_vars

-----------------------------------------------------------------------------
(* Claims about the pipeline *)

GenerationFailed == \E k \in KindSet : genRes[k] = "err"

\* the run is over and an exception left it
RunFailed == pc = "idle" /\ exc # "none" /\ status = "failed"

\* C1: when at least one of the four generation calls of a run fails, the
\* run writes no artifact (the stored artifacts stay those before the run, and
\* no write is even pending) and the run ends with status failed.
C1_GenerationFailureWritesNothing ==
    GenerationFailed =>
        /\ Artifacts(db) = Artifacts(pre)
        /\ tx = NoTx
        /\ pc \notin SavePcs \cup {"save_begin", "progress85"}
        /\ pc = "idle" => status = "failed"

\* C1 witness: quiz failed after the other three calls succeeded, and the run
\* has ended.
C1_Witness ==
    /\ pc = "idle"
    /\ genRes["quiz"] = "err"
    /\ \A k \in KindSet \ {"quiz"} : genRes[k] = "ok"
    /\ cards > 0
    /\ status = "failed"
    /\ Artifacts(db) = Artifacts(pre)

\* C2: in every state a reader can observe, the four artifacts are all as
\* they were before the persist step or all from this run.
C2_ArtifactsAllOldOrAllNew ==
    \/ Artifacts(db) = Artifacts(pre)
    \/ Artifacts(db) = Generated

\* C2 witness: the persist step failed after the new flashcards were written
\* in the transaction, and readers still see the previous artifacts.
C2_Witness ==
    /\ pc = "svc_fail"
    /\ exc = "persist"
    /\ failedAt \in {"save_quiz", "save_commit"}
    /\ Generated.flashcards # pre.flashcards
    /\ pre.summary # 0
    /\ Artifacts(db) = Artifacts(pre)

\* C3 as claimed: whenever a run ends with status failed, artifacts and
\* embeddings equal those before the run.
C3_FailedRunLeavesNothing == RunFailed => db = pre

\* C3 amended: a run that failed before or in the persist step leaves
\* artifacts and embeddings as before the run; a run that failed in the
\* embedding step leaves the embeddings as before the run and the four
\* artifacts of this run, committed by the persist step.
C3_FailedRunPerStep ==
    RunFailed =>
        /\ tx = NoTx
        /\ exc \in {"extract", "persist"} \cup KindSet => db = pre
        /\ exc \in {"embed", "embed_persist"} =>
            /\ Artifacts(db) = Generated
            /\ db.embeddings = pre.embeddings

\* C3 witness: the embedding transaction failed at its commit; the previous
\* embeddings are still stored beside the artifacts of this run.
C3_Witness ==
    /\ RunFailed
    /\ exc = "embed_persist"
    /\ failedAt = "emb_commit"
    /\ pre.embeddings # {}
    /\ db.embeddings = pre.embeddings
    /\ Artifacts(db) = Generated
    /\ Artifacts(db) # Artifacts(pre)

\* C4: whenever a run has set status completed, the stored embeddings are
\* exactly the chunker's output for the run's text, indexed 0..n-1.
C4_CompletedEmbeddingsAreChunks ==
    (status = "completed" /\ pc \in {"task_complete", "idle"}) =>
        db.embeddings = EmbeddingRows(split_into_chunks(text, ChunkSize), run)

Terminal == {"completed", "failed"}

\* C5: status changes follow queued -> processing -> {completed | failed};
\* a terminal status is left only by a trigger (taken when no run is in
\* progress) that sets processing, so inside a run nothing but the same
\* terminal status is written after completed or failed.
C5_StatusOrder ==
    [][ \/ status' = status
        \/ status = "queued" /\ status' = "processing"
        \/ status = "processing" /\ status' \in Terminal
        \/ status \in Terminal /\ pc = "idle" /\ status' = "processing" ]_vars

-----------------------------------------------------------------------------
(* Claims about the tutor *)

\* the chunks of the material strictly nearer than distance d
Nearer(dist, d) == {e \in db.embeddings : dist[e.chunk_index + 1] < d}

\* C6: the rows the vector path builds its context from are chunks of the
\* material, each at a distance strictly below the threshold, each among the
\* top_k nearest, no more than top_k of them, no chunk twice, in ascending
\* order of distance; the context is their texts joined in that order.
C6_VectorContextBelowThreshold ==
    (tpc = "retrieved" /\ retrieval.path = "vector") =>
        LET rows == retrieval.rows
            dist == retrieval.dist
        IN  /\ Len(rows) <= TopK
            /\ \A i \in 1..Len(rows) :
                  /\ rows[i].distance < DISTANCE_THRESHOLD
                  /\ \E e \in db.embeddings :
                        /\ e.chunk_index = rows[i].chunk_index
                        /\ e.chunk_text = rows[i].chunk_text
                        /\ dist[e.chunk_index + 1] = rows[i].distance
                  /\ Cardinality(Nearer(dist, rows[i].distance)) < TopK
            /\ \A i, j \in 1..Len(rows) :
                  i < j => /\ rows[i].distance <= rows[j].distance
                           /\ rows[i].chunk_index # rows[j].chunk_index
            /\ retrieval.context = join([i \in 1..Len(rows) |-> rows[i].chunk_text])

\* C6 witness: the material has more than top_k chunks, one of the top_k
\* nearest sits exactly on the threshold and is left out, so the context is
\* built from fewer than top_k chunks.
C6_Witness ==
    /\ tpc = "retrieved"
    /\ retrieval.path = "vector"
    /\ Cardinality(db.embeddings) > TopK
    /\ Len(retrieval.rows) = 1
    /\ Len(retrieval.rows) < TopK
    /\ \E e \in db.embeddings :
          /\ retrieval.dist[e.chunk_index + 1] = DISTANCE_THRESHOLD
          /\ Cardinality(Nearer(retrieval.dist, DISTANCE_THRESHOLD)) < TopK

\* C7: when retrieval falls back (no embeddings, every candidate at or over
\* the threshold, or the vector query raised) it does not raise and the
\* context is the first N characters of full_text; after a failed query the
\* session has been rolled back when the fallback read is issued.
C7_FallbackIsTextPrefix ==
    /\ (tpc = "retrieved" /\ retrieval.path = "fallback") =>
          /\ retrieval.why \in {"no_rows", "all_far", "error"}
          /\ retrieval.context =
                SubSeq(fullText, 1, Min({FallbackChars, Len(fullText)}))
    /\ (tpc = "fallback" /\ retrieval.why = "error") => ~aborted
    /\ raised # "retrieval"

\* the part of C7 the code keeps: the fallback never raises, and reads after
\* the rollback
C7_FallbackDoesNotRaise ==
    /\ (tpc = "fallback" /\ retrieval.why = "error") => ~aborted
    /\ raised # "retrieval"

\* C8: an ask whose embedding call and chat call succeed ends by returning
\* the generated or cached answer with its two turns appended, whatever the
\* cache store and the vector search did; the only errors an ask can end
\* with are those of the embedding call and of the chat call.
C8_AskSurvivesCacheAndRetrievalFailures ==
    tpc = "done" =>
        /\ raised \in {"none", "embedding", "chat"}
        /\ raised = "none" =>
              /\ returned # Miss
              /\ returned = answer
              /\ messages = msgs0 \o
                    <<[role |-> "user", content |-> q],
                      [role |-> "assistant", content |-> <<returned>>]>>

\* C8 witness: the key enumeration failed, the vector query failed, the
\* cache write failed, and the ask returned an answer with its two turns.
C8_Witness ==
    /\ tpc = "done"
    /\ raised = "none"
    /\ scan.client = "up"
    /\ ~scan.keysOk
    /\ retrieval.why = "error"
    /\ retrieval.context # <<>>
    /\ calls.store = 1
    /\ cache_key(q) \notin DOMAIN cache
    /\ returned = asks
    /\ Len(messages) = Len(msgs0) + 2

\* the keys of the scan whose entry was read and parsed, in enumeration order
Readable(sc) == SelectSeq(sc.keys, LAMBDA k : sc.reads[k] = "ok")

\* the readable keys whose entry is strictly nearer than the cache threshold
Matching(sc) ==
    SelectSeq(Readable(sc),
              LAMBDA k : cosine_distance_below(q, cache[k].embedding,
                                               SEMANTIC_SIM_THRESHOLD))

\* C9: the lookup returns the answer of the first entry, in enumeration
\* order, among the readable entries strictly nearer than the cache
\* threshold, and a miss exactly when there is none (also when the store
\* cannot be reached or enumerated); unreadable entries are passed over.
C9_LookupFirstMatch ==
    tpc = "looked" =>
        IF scan.client = "up" /\ scan.keysOk
        THEN /\ Matching(scan) # <<>> => cached = cache[Matching(scan)[1]].answer
             /\ Matching(scan) = <<>> <=> cached = Miss
        ELSE cached = Miss

\* C9 witness: the first enumerated entry could not be read, a later one is
\* near enough, and its answer is the result.
C9_Witness ==
    /\ tpc = "looked"
    /\ scan.keysOk
    /\ Len(scan.keys) >= 2
    /\ scan.reads[scan.keys[1]] = "raises"
    /\ cosine_distance_below(q, cache[scan.keys[1]].embedding, SEMANTIC_SIM_THRESHOLD)
    /\ scan.reads[scan.keys[2]] = "ok"
    /\ cached # Miss
    /\ cached = cache[scan.keys[2]].answer
    /\ cached # cache[scan.keys[1]].answer

\* C10: from a cache hit on, the ask has made one embedding call and no
\* vector query, history load, chat call or cache write; it ends without an
\* error, returns the cached answer and has appended the user turn and the
\* assistant turn carrying that answer.
C10_HitCostsOneEmbedding ==
    (cached # Miss /\ tpc # "looked") =>
        /\ calls = [NoCalls EXCEPT !.embed = 1]
        /\ tpc \in {"save", "done"}
        /\ tpc = "done" =>
              /\ raised = "none"
              /\ returned = cached
              /\ messages = msgs0 \o
                    <<[role |-> "user", content |-> q],
                      [role |-> "assistant", content |-> <<cached>>]>>

\* C10 witness: an ask that hit the cache has ended, returning the answer a
\* previous ask generated.
C10_Witness ==
    /\ tpc = "done"
    /\ cached # Miss
    /\ cached < asks
    /\ returned = cached
    /\ Len(messages) = Len(msgs0) + 2
    /\ calls.embed = 1
    /\ calls.chat = 0

\* the lookup of this scan found the store unavailable: no client, a keys()
\* call that raised, or every get raising
LookupUnavailable(sc) ==
    \/ sc.client = "down"
    \/ ~sc.keysOk
    \/ \A k \in DOMAIN sc.reads : sc.reads[k] = "raises"

\* C11: a lookup that finds the cache store unavailable returns a miss, a
\* store whose client is missing or whose setex raises leaves the cache as
\* it was, and in both cases the ask goes on without an error.
C11_UnavailableCacheDegrades ==
    [][ /\ (tpc = "lookup" /\ LookupUnavailable(scan')) =>
              /\ tpc' = "looked"
              /\ cached' = Miss
              /\ raised' = "none"
        /\ (tpc = "store" /\ calls'.stored = calls.stored) =>
              /\ cache' = cache
              /\ tpc' = "save"
              /\ raised' = "none" ]_vars

\* C11 witness: the lookup got no client although an entry near enough was
\* stored, and the setex of the same ask raised; the ask is about to save.
C11_Witness ==
    /\ tpc = "save"
    /\ scan.client = "down"
    /\ cached = Miss
    /\ \E k \in DOMAIN cache :
          cosine_distance_below(q, cache[k].embedding, SEMANTIC_SIM_THRESHOLD)
    /\ calls.store = 1
    /\ calls.stored = 0
    /\ cache_key(q) \notin DOMAIN cache
    /\ raised = "none"

\* what the calls made so far by an ask that missed the cache say about
\* their order
MissOrder ==
    /\ calls.history > 0 => calls.vector = 1
    /\ calls.chat > 0 => calls.history = 1
    /\ calls.store > 0 => (calls.chat = 1 /\ raised # "chat" /\ answer = asks)
    /\ calls.stored > 0 =>
          /\ cache_key(q) \in DOMAIN cache
          /\ cache[cache_key(q)] = [embedding |-> q, answer |-> asks]
    /\ raised = "chat" => (calls.store = 0 /\ messages = msgs0)

\* C12: an ask that missed the cache queries the vector store, then loads
\* the history, then generates, then stores the answer in the cache, then
\* appends its two turns; the cache is written only in the store step and
\* with the generated answer, and an ask whose generation failed has made no
\* cache write and appended no turn.
C12_MissRunsInOrder ==
    [][ /\ MissOrder'
        /\ (cache' # cache /\ tpc # "idle") =>
              (tpc = "store" /\ calls.chat = 1 /\ raised = "none")
        /\ messages' # messages =>
              (tpc = "save" /\ raised = "none" /\
               (cached = Miss => calls.chat = 1)) ]_vars

\* C12 witness: an ask that missed the cache has ended with its answer stored
\* in the cache and its two turns appended, one call of each kind made.
C12_Witness ==
    /\ tpc = "done"
    /\ cached = Miss
    /\ raised = "none"
    /\ calls = [embed |-> 1, vector |-> 1, history |-> 1, chat |-> 1,
                store |-> 1, stored |-> 1]
    /\ cache[cache_key(q)].answer = returned
    /\ Len(messages) = Len(msgs0) + 2

\* C13: a store that reaches an available cache with an embedding different
\* from every stored one adds an entry and leaves every stored entry as it
\* was, so the number of entries grows by one.
C13_StoreAddsNewEntry ==
    [][ (/\ tpc = "store"
         /\ calls'.stored > calls.stored
         /\ \A k \in DOMAIN cache : cache[k].embedding # q) =>
            /\ \A k \in DOMAIN cache : k \in DOMAIN cache' /\ cache'[k] = cache[k]
            /\ Cardinality(DOMAIN cache') = Cardinality(DOMAIN cache) + 1 ]_vars

\* C16: after a retry request on a failed material, and until the task of
\* the new run starts, the status is processing and no error is recorded;
\* when the run that the retry started has completed, each of the four
\* artifacts is the one this run generated.
C16_RetryResetsAndReplaces ==
    (trigger.kind = "retry" /\ trigger.from = "failed") =>
        /\ pc \in {"dispatch", "queued"} =>
              (status = "processing" /\ error = "none" /\ progress = 0)
        /\ (status = "completed" /\ pc \in {"task_complete", "idle"}) =>
              Artifacts(db) = Generated

\* C16 witness: the first run failed while embedding, after it had stored
\* its artifacts; the retry's run has completed and stored other artifacts.
C16_Witness ==
    /\ trigger = [kind |-> "retry", from |-> "failed"]
    /\ pc = "idle"
    /\ status = "completed"
    /\ error = "none"
    /\ run = 2
    /\ pre.flashcards # {}
    /\ Generated.flashcards # {}
    /\ Artifacts(db) = Generated
    /\ \A k \in KindSet : db[k] # pre[k]

\* the run is over, a generation call had failed, and the task has recorded
\* the error that process_material raised
GenerationFailureRecorded ==
    /\ RunFailed
    /\ failedAt = "gen"
    /\ error = exc

\* C17: when several generation calls of a run failed, the error that
\* process_material raised and the task recorded is the one of the call
\* that failed first in time.
C17_FirstObservedFailureSurfaces ==
    (GenerationFailureRecorded /\ Len(failOrder) > 1) => error = failOrder[1]

\* position of a kind in the list summary, notes, flashcards, quiz
ListPos(k) == CHOOSE i \in 1..Len(Kinds) : Kinds[i] = k

\* C17 as the code has it: the error raised and recorded is the one of the
\* failed call that comes first in the list summary, notes, flashcards,
\* quiz, whichever call failed first in time.
C17_FirstFailureInListOrder ==
    (GenerationFailureRecorded /\ Len(failOrder) > 1) =>
        /\ genRes[error] = "err"
        /\ \A k \in KindSet : genRes[k] = "err" => ListPos(error) <= ListPos(k)

\* C17 witness: quiz failed first, then notes; the error raised and recorded
\* is the one of notes.
C17_Witness ==
    /\ GenerationFailureRecorded
    /\ failOrder = <<"quiz", "notes">>
    /\ error = "notes"

-----------------------------------------------------------------------------
(* Claims about regeneration *)

\* C14: a regenerate_flashcards call on a material with text whose generation
\* call succeeded completes, and the stored flashcards are then exactly the
\* items that generation returned, none of an earlier generation.
C14_RegenerateFlashcardsReplaces ==
    (/\ pc = "regen_done"
     /\ regen.kind = "flashcards"
     /\ regen.raised \notin {"no_text", "generation"}) =>
        /\ regen.raised = "none"
        /\ db.flashcards = Items(RegenTag(regen.id), regen.n)

\* C15: a regenerate_* call leaves every artifact of another kind, the
\* embeddings and the material's processing status as they were before the
\* call, however it ends; when its generation call failed, the artifact of
\* its own kind is as before the call too.
C15_RegenerateFrame ==
    regen.kind # "none" =>
        /\ \A f \in (DOMAIN EmptyRows) \ {regen.kind} : db[f] = regen.pre[f]
        /\ status = "completed" /\ progress = 100 /\ error = "none"
        /\ regen.raised = "generation" => db[regen.kind] = regen.pre[regen.kind]

\* C15 witness: the generation call of a second regeneration failed and the
\* request has ended; the material's rows are those from before the call.
C15_Witness ==
    /\ pc = "idle"
    /\ regen.id = 2
    /\ regen.kind = "quiz"
    /\ regen.raised = "generation"
    /\ regen.pre.quiz # {}
    /\ db = regen.pre

-----------------------------------------------------------------------------
(* Claims about the chunker *)

\* a chunk that is one sentence: no sentence terminator before its last
\* character
SingleSentence(c) == \A i \in 1..(Len(c) - 1) : c[i] \notin sentence_endings

\* C18: every chunk is at most target_size long unless it is a single
\* sentence longer than target_size.
C18_ChunksWithinTarget ==
    chunked.done =>
        \A i \in 1..Len(chunked.chunks) :
            \/ Len(chunked.chunks[i]) <= chunked.size
            \/ SingleSentence(chunked.chunks[i])

RECURSIVE Concat(_)
Concat(ss) == IF ss = <<>> THEN <<>> ELSE Head(ss) \o Concat(Tail(ss))

NonWhitespace(s) == SelectSeq(s, LAMBDA ch : ch \notin Whitespace)

\* C19: the chunks, concatenated in order and with all whitespace deleted,
\* are the input text with all whitespace deleted.
C19_ChunksPreserveContent ==
    chunked.done =>
        NonWhitespace(Concat(chunked.chunks)) = NonWhitespace(chunked.text)

\* C19 witness: a text of two paragraphs, the second one over the target
\* size and cut at a sentence terminator, chunked into three chunks.
C19_Witness ==
    /\ chunked.done
    /\ chunked.text = <<"a", NL, NL, "a", ".", "a">>
    /\ chunked.size = 2
    /\ chunked.chunks = << <<"a">>, <<"a", ".">>, <<"a">> >>

\* C20: every chunk is non-empty and neither starts nor ends with whitespace.
C20_ChunksNonEmptyTrimmed ==
    chunked.done =>
        \A i \in 1..Len(chunked.chunks) :
            LET c == chunked.chunks[i]
            IN  /\ c # <<>>
                /\ c[1] \notin Whitespace
                /\ c[Len(c)] \notin Whitespace

\* C20 witness: a window of an oversized paragraph that held only whitespace
\* before its cut gave no chunk, and the chunks around it are trimmed.
C20_Witness ==
    /\ chunked.done
    /\ chunked.text = <<"a", ".", " ", " ", "a", "a">>
    /\ chunked.size = 2
    /\ Len(chunked.chunks) = 2

\* C21: paragraphs are accumulated while the combined chunk stays within
\* target_size: three paragraphs of 40, 60 and 90 characters with
\* target_size = 100 give exactly 2 chunks, paragraphs 1 and 2 combined and
\* paragraph 3 alone.
C21_ThreeParagraphsTwoChunks ==
    (chunked.done /\ chunked.text = Paragraphs(<<40, 60, 90>>)
                  /\ chunked.size = ExampleTarget) =>
        /\ Len(chunked.chunks) = 2
        /\ NonWhitespace(chunked.chunks[1]) = Para(40) \o Para(60)
        /\ chunked.chunks[2] = Para(90)

\* C21 (as the code has it): when every paragraph fits the target size, each
\* chunk is a run of consecutive paragraphs joined by a blank line, no longer
\* than the target size with the two separator characters counted, and a
\* chunk ends only where the next paragraph would not fit; paragraphs of 40,
\* 60 and 90 characters under a target of 100 give three chunks (40 + 2 + 60
\* is 102).
C21_GreedyWithSeparator ==
    LET paras == paragraphs_of(chunked.text)
        cs == chunked.chunks
    IN  (chunked.done /\ \A i \in 1..Len(paras) : Len(paras[i]) <= chunked.size) =>
            /\ Concat([i \in 1..Len(cs) |-> paragraphs_of(cs[i])]) = paras
            /\ \A i \in 1..Len(cs) :
                   /\ cs[i] = join(paragraphs_of(cs[i]))
                   /\ Len(cs[i]) <= chunked.size
            /\ \A i \in 1..(Len(cs) - 1) :
                   Len(cs[i]) + 2 + Len(Head(paragraphs_of(cs[i + 1]))) > chunked.size
            /\ (chunked.text = Paragraphs(<<40, 60, 90>>)
                    /\ chunked.size = ExampleTarget) =>
                   cs = <<Para(40), Para(60), Para(90)>>

\* C21 witness: the three paragraphs of 40, 60 and 90 characters have been
\* chunked under a target of 100, each flushed when the next one did not fit.
C21_Witness ==
    /\ chunked.done
    /\ chunked.text = Paragraphs(<<40, 60, 90>>)
    /\ chunked.size = ExampleTarget
    /\ Len(chunked.chunks) = 3

\* C22: empty input gives no chunk, and a non-empty input shorter than
\* target_size gives exactly one chunk, the input with its leading and
\* trailing whitespace removed.
C22_ShortTextOneTrimmedChunk ==
    chunked.done =>
        /\ chunked.text = <<>> => chunked.chunks = <<>>
        /\ (chunked.text # <<>> /\ Len(chunked.text) < chunked.size) =>
               chunked.chunks = <<strip(chunked.text)>>

\* a whitespace run that holds a paragraph break (two adjacent newlines)
HasBreak(ws) == \E i \in 1..(Len(ws) - 1) : ws[i] = NL /\ ws[i + 1] = NL

\* s with every whitespace run that holds a paragraph break replaced by one
\* blank line
RECURSIVE CollapseBreaks(_)
CollapseBreaks(s) ==
    IF s = <<>> THEN <<>>
    ELSE IF Head(s) \notin Whitespace THEN <<Head(s)>> \o CollapseBreaks(Tail(s))
    ELSE LET rest == lstrip(s)
             ws == SubSeq(s, 1, Len(s) - Len(rest))
         IN  (IF HasBreak(ws) THEN <<NL, NL>> ELSE ws) \o CollapseBreaks(rest)

\* C22 (as the code has it): a text without any non-whitespace character,
\* the empty text included, gives no chunk; any other text shorter than
\* target_size gives exactly one chunk, the trimmed text with the whitespace
\* around each paragraph break reduced to one blank line.
C22_ShortTextOneNormalisedChunk ==
    chunked.done =>
        /\ NonWhitespace(chunked.text) = <<>> => chunked.chunks = <<>>
        /\ (NonWhitespace(chunked.text) # <<>>
                /\ Len(chunked.text) < chunked.size) =>
               chunked.chunks = <<CollapseBreaks(strip(chunked.text))>>

\* C22 witness: a short text with a space before its paragraph break has been
\* chunked into one chunk that is not the trimmed text.
C22_Witness ==
    /\ chunked.done
    /\ chunked.text = <<"a", " ", NL, NL, "a">>
    /\ Len(chunked.text) < chunked.size
    /\ chunked.chunks = << <<"a", NL, NL, "a">> >>

\* the step-wise sentence splitter returns what the recursive one computes
SentenceStepsAgree ==
    chunked.done =>
        chunked.chunks = split_by_sentences(chunked.text, chunked.size)

\* C29: for every text and every target_size >= 1 the sentence splitter
\* terminates: every iteration that does not end the loop strictly advances
\* the start position, and the call eventually returns.
C29_SentenceSplitterTerminates ==
    /\ [][chunked'.done \/ chunked'.start > chunked.start]_vars
    /\ <>(chunked.done)

\* C29 witness: a call has returned after a cut at a sentence terminator
\* that moved the start position, and a last slice.
C29_Witness ==
    /\ chunked.done
    /\ chunked.text = <<"a", "a", ".", "a", "a">>
    /\ chunked.size = 2
    /\ chunked.start = 3
    /\ chunked.chunks = << <<"a", "a", ".">>, <<"a", "a">> >>

-----------------------------------------------------------------------------
(* Claims about the generation gateway *)

GwReturned ==
    /\ gw.call.pc = "done"
    /\ gw.call.outcome = "returned"
    /\ gw.call.kind \in {"flashcards", "quiz"}

Letters == {"a", "b", "c", "d"}

OptionTexts(it) == {it.option_a, it.option_b, it.option_c, it.option_d}

\* the text of the option a bare letter names
LetterOption(it) ==
    CASE it.correct_option = "a" -> it.option_a
      [] it.correct_option = "b" -> it.option_b
      [] it.correct_option = "c" -> it.option_c
      [] it.correct_option = "d" -> it.option_d

\* a returned item as the claim wants it
WellFormed(kind, it) ==
    /\ it.obj
    /\ it.question # Missing
    /\ IF kind = "flashcards" THEN it.answer # Missing
       ELSE /\ Missing \notin OptionTexts(it)
            /\ it.correct_option # Missing
            /\ it.correct_option \in OptionTexts(it)

\* an item of the model output that is to be kept, and what it is kept as
Kept(kind, it) ==
    /\ it.obj
    /\ it.question # Missing
    /\ IF kind = "flashcards" THEN it.answer # Missing
       ELSE /\ Missing \notin OptionTexts(it)
            /\ it.correct_option # Missing
            /\ it.correct_option \in OptionTexts(it) \cup Letters

KeptAs(kind, it) ==
    IF kind = "quiz" /\ it.correct_option \in Letters
    THEN [it EXCEPT !.correct_option = LetterOption(it)]
    ELSE it

\* C23: every returned flashcard has a question and an answer, every returned
\* quiz question has its six fields and a correct_option that is the text of
\* one of its own options (a bare letter replaced by the matching option's
\* text); the returned list is the kept items of the model output, in their
\* original order, the others dropped.
C23_ReturnedItemsValidInOrder ==
    GwReturned =>
        LET kind == gw.call.kind
            raw == gw.call.raw
            res == gw.call.result
            idx == {i \in 1..Len(raw) : Kept(kind, raw[i])}
        IN  /\ \A k \in 1..Len(res) : WellFormed(kind, res[k])
            /\ ~gw.call.hit =>
                  /\ Len(res) = Cardinality(idx)
                  /\ \E f \in [1..Len(res) -> idx] :
                        /\ \A j, k \in 1..Len(res) : j < k => f[j] < f[k]
                        /\ \A k \in 1..Len(res) : res[k] = KeptAs(kind, raw[f[k]])

\* C23 witness: a quiz output of a question whose answer is no option and a
\* question answered by a bare letter was returned as the second question
\* alone, its answer the text of option b.
C23_Witness ==
    /\ GwReturned
    /\ gw.call.kind = "quiz"
    /\ gw.call.raw = <<QuizItem("q", "y", "n"), QuizItem("q", "y", "b")>>
    /\ gw.call.result = <<QuizItem("q", "y", "y")>>

\* C24: malformed items are dropped without failing the batch as long as a
\* valid item remains, and a model output without any valid item is a
\* generation failure: the call never returns an empty list.
C24_NoValidItemIsFailure ==
    /\ GwReturned => gw.call.result # <<>>
    /\ (gw.call.pc = "done" /\ gw.call.kind \in {"flashcards", "quiz"}
            /\ gw.call.last = "ok" /\ gw.call.exc # "JSONDecodeError") =>
           (gw.call.outcome = "returned"
               <=> \E i \in 1..Len(gw.call.raw) : Kept(gw.call.kind, gw.call.raw[i]))

\* what holds of a gateway call at every moment
AttemptsBounded ==
    /\ gw.call.attempts <= 3
    /\ (gw.call.last = "retriable" /\ gw.call.attempts < 3) =>
           (gw.call.pc = "attempt" /\ gw.call.outcome = "none")
    /\ (gw.call.last = "retriable" /\ gw.call.attempts = 3) =>
           (gw.call.pc = "done" /\ gw.call.outcome = "raised")
    /\ gw.call.last = "fatal" =>
           (gw.call.pc = "done" /\ gw.call.outcome = "raised")
    /\ gw.call.last = "ok" => gw.call.pc \in {"parse", "done"}
    /\ gw.call.pc = "done" <=> gw.call.outcome \in {"returned", "raised"}

\* C25: a provider call is attempted at most 3 times; a retriable error on
\* attempt 1 or 2 is followed by another attempt, a non-retriable error or a
\* third failure ends the call with an exception, no attempt follows a
\* successful one, and a call ends with exactly one outcome, which does not
\* change.
C25_AtMostThreeAttemptsOneOutcome ==
    /\ []AttemptsBounded
    /\ [][/\ gw'.call.attempts > gw.call.attempts =>
                /\ gw'.call.attempts = gw.call.attempts + 1
                /\ gw.call.pc = "attempt"
                /\ gw.call.last \in {"none", "retriable"}
          /\ gw.call.pc = "done" => gw'.call.pc = "idle"]_vars

\* C25 witness: a call returned the result of its third attempt, after two
\* retriable errors.
C25_Witness ==
    /\ gw.call.pc = "done"
    /\ gw.call.attempts = 3
    /\ gw.call.last = "ok"
    /\ gw.call.outcome = "returned"

-----------------------------------------------------------------------------
(* Claims about the conversation history *)

\* the last n elements of a sequence
LastTurns(seq, n) == SubSeq(seq, Max({1, Len(seq) - n + 1}), Len(seq))

\* C26: on a cache miss the conversational context passed to generation is
\* the last history_limit turns of the material, no more than history_limit
\* of them, oldest first, for every history_limit and every stored length.
C26_ContextIsLastLimitTurns ==
    hcall.pc = "done" =>
        /\ Len(hcall.passed) <= hcall.limit
        /\ hcall.passed = LastTurns(hcall.stored, hcall.limit)

-----------------------------------------------------------------------------
(* Claims about the end of a run and the completed material *)

\* a task is queued or its body is running
RunInProgress == pc \notin {"idle", "dispatch"}

\* C27: a pipeline run that has started ends with the material in status
\* completed or failed, never left in processing, whichever step raises, the
\* status write of the failure handler included.
C27_RunEndsTerminal ==
    [][(RunInProgress /\ pc' = "idle") => status' \in Terminal]_vars

\* C28: in every reachable state a material whose status is completed has
\* progress 100 and no recorded processing_error.
C28_CompletedIsClean ==
    status = "completed" => (progress = 100 /\ error = "none")

\* the progress half of C28 alone
ProgressOfCompleted == status = "completed" => progress = 100

-----------------------------------------------------------------------------
(* Claims about overlapping writers *)

\* C30: when two replace-all writers of the same material overlap, the
\* stored flashcard set after both have finished is the output of exactly
\* one of them, never the union of both.
C30_OverlapLeavesOneOutput ==
    (/\ \A w \in 1..NWriters : writers[w].pc = "returned" /\ writers[w].generated
     /\ \E w \in 1..NWriters : writers[w].overlapped) =>
        \E w \in 1..NWriters : db.flashcards = writers[w].out

====
